---------------------------- MODULE Spec2Model ----------------------------
(***************************************************************************)
(* Model of the metadata extraction engine of phobit-player                *)
(* (MusicMetadataExtractor and M4AParser).                                 *)
(*                                                                         *)
(* Representation.                                                         *)
(*   - A string is the sequence of its character codes; a byte buffer      *)
(*     (ArrayBuffer) is a record [bytes, pad]: the bytes written out,      *)
(*     followed by pad bytes of value 0 (the audio payload of a file).     *)
(*   - null is the value Null; a number that is a quotient (a duration)    *)
(*     is the exact fraction [num, den].                                   *)
(*   - A call that may throw yields Ok(v) or Thrown(e).                    *)
(*   - Every loop of the parsers is one action per iteration; the locals   *)
(*     of a function are state variables that exist between its prologue   *)
(*     and its return.                                                     *)
(***************************************************************************)
EXTENDS Integers, Sequences, FiniteSets, TLC

VARIABLES
    pc,               \* position in parseMetadata and the parser it dispatched to
    audioData,        \* the buffer of the current call
    callerData,       \* the caller's view of the buffer it passed
    filePath,         \* the file name of the current call
    defaultMetadata,  \* parseMetadata: the pre-seeded record
    metadata,         \* the format parser's working copy
    ret,              \* what the last parseMetadata call returned
    outcome,          \* "none" | "returned" | "rejected"
    exc,              \* the exception in flight or last absorbed, "" if none
    absorbed,         \* the catch blocks that absorbed an exception in this call
    offset,           \* parseMP3 / parseFLAC / parseWAV: let offset
    endOffset,        \* parseMP3: const endOffset; parseWAVInfo: const endOffset
    version,          \* parseMP3: const version
    pos,              \* parseVorbisComments / parseWAVInfo: let pos
    i,                \* parseVorbisComments: the for loop's counter
    commentCount,     \* parseVorbisComments: const commentCount
    result,           \* parseVorbisComments: result; parseWAVInfo: info
    findOffset,       \* findWAVDataSize: let offset
    byteRate,         \* parseWAV: const byteRate of the fmt chunk being handled
    stack,            \* M4AParser: the active calls, innermost last
    probe,            \* the input whose first result is remembered
    probeRet,         \* the record the first call on probe returned
    history,          \* the calls on probe so far, and whether another call followed
    steps,            \* the steps the call in progress has taken
    songs,            \* GlassFlowPlayer: this.songs, the file paths of the songs
    currentSongIndex, \* GlassFlowPlayer: this.currentSongIndex
    isPlaying,        \* GlassFlowPlayer: this.isPlaying
    audioPlayer,      \* the audio element: its source, and the play() promises
    op                \* the handler of GlassFlowPlayer that ran last

vars == <<pc, audioData, callerData, filePath, defaultMetadata, metadata, ret,
          outcome, exc, absorbed, offset, endOffset, version, pos, i,
          commentCount, result, findOffset, byteRate, stack, probe, probeRet,
          history, steps, songs, currentSongIndex, isPlaying, audioPlayer, op>>

\* the variables of a parseMetadata call
parser == <<pc, audioData, callerData, filePath, defaultMetadata, metadata, ret,
            outcome, exc, absorbed, offset, endOffset, version, pos, i,
            commentCount, result, findOffset, byteRate, stack, probe, probeRet,
            history, steps>>
\* the fields of the player and its audio element
player == <<songs, currentSongIndex, isPlaying, audioPlayer, op>>

-----------------------------------------------------------------------------
(* Values *)

Null == <<-1>>
Ok(v) == [t |-> FALSE, v |-> v]
\* a value that may be null
None == [some |-> FALSE]
Some(v) == [some |-> TRUE, v |-> v]
Thrown(e) == [t |-> TRUE, v |-> e]

Min(a, b) == IF a < b THEN a ELSE b

RECURSIVE BitOr(_, _)
\* JavaScript a | b on non-negative operands below 2^31
BitOr(a, b) ==
    IF a = 0 THEN b
    ELSE IF b = 0 THEN a
    ELSE (IF a % 2 = 1 \/ b % 2 = 1 THEN 1 ELSE 0) + 2 * BitOr(a \div 2, b \div 2)

\* JavaScript a & m for a mask m = 2^k - 1 and a >= 0
LowBits(a, m) == a % (m + 1)

Frac(n, d) == [num |-> n, den |-> d]
Zero == Frac(0, 1)
RECURSIVE Gcd(_, _)
Gcd(a, b) == IF b = 0 THEN a ELSE Gcd(b, a % b)
\* a fraction with a positive denominator, in lowest terms
Reduce(p) ==
    LET g == Gcd(IF p.num < 0 THEN -p.num ELSE p.num, p.den)
    IN  Frac(p.num \div g, p.den \div g)
\* equality of two fractions with positive denominators
FracEq(p, q) == Reduce(p) = Reduce(q)

-----------------------------------------------------------------------------
(* Strings as character codes *)

S_mp3 == <<46, 109, 112, 51>>                    \* ".mp3"
S_flac == <<46, 102, 108, 97, 99>>               \* ".flac"
S_m4a == <<46, 109, 52, 97>>                     \* ".m4a"
S_wav == <<46, 119, 97, 118>>                    \* ".wav"
UnknownTitle == <<26410, 30693, 27468, 26354>>           \* '未知歌曲'
UnknownArtist == <<26410, 30693, 33402, 26415, 23478>>   \* '未知艺术家'
UnknownAlbum == <<26410, 30693, 19987, 36753>>           \* '未知专辑'
S_ID3 == <<73, 68, 51>>
S_TIT2 == <<84, 73, 84, 50>>
S_TPE1 == <<84, 80, 69, 49>>
S_TALB == <<84, 65, 76, 66>>
S_APIC == <<65, 80, 73, 67>>
S_imagejpeg == <<105, 109, 97, 103, 101, 47, 106, 112, 101, 103>>
S_imagepng == <<105, 109, 97, 103, 101, 47, 112, 110, 103>>
S_TITLE == <<84, 73, 84, 76, 69>>
S_ARTIST == <<65, 82, 84, 73, 83, 84>>
S_ALBUM == <<65, 76, 66, 85, 77>>
S_fLaC == <<102, 76, 97, 67>>
S_RIF == <<82, 73, 70>>
S_RIFF == <<82, 73, 70, 70>>
S_WAVE == <<87, 65, 86, 69>>
S_fmt == <<102, 109, 116, 32>>          \* "fmt "
S_LIST == <<76, 73, 83, 84>>
S_INFO == <<73, 78, 70, 79>>
S_data == <<100, 97, 116, 97>>
S_INAM == <<73, 78, 65, 77>>
S_IART == <<73, 65, 82, 84>>
S_IPRD == <<73, 80, 82, 68>>
S_ICRD == <<73, 67, 82, 68>>
S_IGNR == <<73, 71, 78, 82>>
S_moov == <<109, 111, 111, 118>>
S_trak == <<116, 114, 97, 107>>
S_mdia == <<109, 100, 105, 97>>
S_minf == <<109, 105, 110, 102>>
S_ilst == <<105, 108, 115, 116>>
S_covr == <<99, 111, 118, 114>>
S_stts == <<115, 116, 116, 115>>
S_stsd == <<115, 116, 115, 100>>
S_hdlr == <<104, 100, 108, 114>>
S_ftyp == <<102, 116, 121, 112>>
S_free == <<102, 114, 101, 101>>

\* String.prototype.toLowerCase / toUpperCase on the ASCII range
LowerChar(c) == IF c \in 65..90 THEN c + 32 ELSE c
UpperChar(c) == IF c \in 97..122 THEN c - 32 ELSE c
toLowerCase(s) == [k \in 1..Len(s) |-> LowerChar(s[k])]
toUpperCase(s) == [k \in 1..Len(s) |-> UpperChar(s[k])]

\* the white space String.prototype.trim removes (codes below 256)
IsSpace(c) == c \in {9, 10, 11, 12, 13, 32, 160}

RECURSIVE TrimLeft(_)
TrimLeft(s) == IF s # <<>> /\ IsSpace(Head(s)) THEN TrimLeft(Tail(s)) ELSE s
RECURSIVE TrimRight(_)
TrimRight(s) ==
    IF s # <<>> /\ IsSpace(s[Len(s)]) THEN TrimRight(SubSeq(s, 1, Len(s) - 1)) ELSE s
trim(s) == TrimRight(TrimLeft(s))

\* the greatest k with s[k] in cs, 0 if none
LastIndexIn(s, cs) ==
    LET hits == {k \in 1..Len(s) : s[k] \in cs}
    IN  IF hits = {} THEN 0 ELSE CHOOSE k \in hits : \A h \in hits : h <= k

\* where /\.[^.]+$/ matches in s: the last dot, if a character follows it; else 0
ExtMatch(s) ==
    LET d == LastIndexIn(s, {46})
    IN  IF d > 0 /\ d < Len(s) THEN d ELSE 0

getFileExtension(path) ==
    LET m == ExtMatch(path)
    IN  IF m = 0 THEN <<>> ELSE SubSeq(path, m, Len(path))

\* the file name with its extension left on
getDefaultTitleKeepsExt(path) ==
    LET sep == LastIndexIn(path, {47, 92})
        fileName == SubSeq(path, sep + 1, Len(path))
    IN  IF fileName # <<>> THEN fileName ELSE UnknownTitle

getDefaultTitleKeepsEmpty(path) ==
    LET sep == LastIndexIn(path, {47, 92})
        fileName == SubSeq(path, sep + 1, Len(path))
        m == ExtMatch(fileName)
    IN  IF m = 0 THEN fileName ELSE SubSeq(fileName, 1, m - 1)

getDefaultTitle(path) ==
    LET sep == LastIndexIn(path, {47, 92})
        fileName == SubSeq(path, sep + 1, Len(path))
        m == ExtMatch(fileName)
        withoutExt == IF m = 0 THEN fileName ELSE SubSeq(fileName, 1, m - 1)
    IN  IF withoutExt # <<>> THEN withoutExt ELSE UnknownTitle

\* ext.replace('.', ''): the first dot removed
RemoveFirstDot(s) ==
    LET hits == {k \in 1..Len(s) : s[k] = 46}
    IN  IF hits = {} THEN s
        ELSE LET d == CHOOSE k \in hits : \A h \in hits : k <= h
             IN  SubSeq(s, 1, d - 1) \o SubSeq(s, d + 1, Len(s))

Ext(path) == toLowerCase(getFileExtension(path))

\* the default record kept from the call before when the extension is the same
DefaultMetadataCachedByFormat(path) ==
    IF defaultMetadata.format = toUpperCase(RemoveFirstDot(Ext(path)))
    THEN defaultMetadata
    ELSE [title |-> getDefaultTitle(path),
          artist |-> UnknownArtist,
          album |-> UnknownAlbum,
          duration |-> Zero,
          cover |-> Null,
          coverType |-> Null,
          format |-> toUpperCase(RemoveFirstDot(Ext(path))),
          filePath |-> path]

DefaultMetadata(path) ==
    [title |-> getDefaultTitle(path),
     artist |-> UnknownArtist,
     album |-> UnknownAlbum,
     duration |-> Zero,
     cover |-> Null,
     coverType |-> Null,
     format |-> toUpperCase(RemoveFirstDot(Ext(path))),
     filePath |-> path]

\* a || b on strings and null
OrElse(a, b) == IF a = Null \/ a = <<>> THEN b ELSE a

-----------------------------------------------------------------------------
(* DataView over a buffer *)

byteLength(b) == Len(b.bytes) + b.pad
\* a view whose reads past the end give 0 instead of throwing
InBufNoUpperBound(b, off, n) == off >= 0
InBuf(b, off, n) == off >= 0 /\ off + n <= byteLength(b)
\* a byte the caller has found in range
At(b, off) == IF off < Len(b.bytes) THEN b.bytes[off + 1] ELSE 0

getUint8(b, off) == IF InBuf(b, off, 1) THEN Ok(At(b, off)) ELSE Thrown("RangeError")

\* big-endian, DataView's default
U32(b, off) ==
    At(b, off) * 16777216 + At(b, off + 1) * 65536 + At(b, off + 2) * 256 + At(b, off + 3)
getUint32(b, off) == IF InBuf(b, off, 4) THEN Ok(U32(b, off)) ELSE Thrown("RangeError")
U16(b, off) == At(b, off) * 256 + At(b, off + 1)
getUint16(b, off) == IF InBuf(b, off, 2) THEN Ok(U16(b, off)) ELSE Thrown("RangeError")

\* String.fromCharCode of the four bytes at off
Str4(b, off) == <<At(b, off), At(b, off + 1), At(b, off + 2), At(b, off + 3)>>

\* ArrayBuffer.prototype.slice(begin, end): clamped to the buffer, never throws
slice(b, begin, end) ==
    LET lo == Min(begin, byteLength(b))
        hi == Min(end, byteLength(b))
    IN  IF hi <= lo THEN <<>> ELSE [k \in 1..(hi - lo) |-> At(b, lo + k - 1)]

Syncsafe(b, off) ==
    BitOr(BitOr(At(b, off) * 2097152, At(b, off + 1) * 16384),
          BitOr(At(b, off + 2) * 128, At(b, off + 3)))
readSyncsafeInt(b, off) ==
    IF InBuf(b, off, 4) THEN Ok(Syncsafe(b, off)) ELSE Thrown("RangeError")

-----------------------------------------------------------------------------
(* Text decoding and encoding *)

IsCont(c) == c \in 128..191

RECURSIVE Utf8(_)
\* the WHATWG UTF-8 decoder, not fatal: a malformed sequence gives U+FFFD
Utf8(s) ==
    IF s = <<>> THEN <<>>
    ELSE LET a == s[1]
             n == Len(s)
             rest(k) == Utf8(SubSeq(s, k + 1, n))
         IN  IF a < 128 THEN <<a>> \o rest(1)
             ELSE IF a \in 194..223 THEN
                 IF n >= 2 /\ IsCont(s[2])
                 THEN <<(a - 192) * 64 + (s[2] - 128)>> \o rest(2)
                 ELSE <<65533>> \o rest(1)
             ELSE IF a \in 224..239 THEN
                 LET lo == IF a = 224 THEN 160 ELSE 128
                     hi == IF a = 237 THEN 159 ELSE 191
                 IN  IF ~(n >= 2 /\ s[2] \in lo..hi) THEN <<65533>> \o rest(1)
                     ELSE IF ~(n >= 3 /\ IsCont(s[3])) THEN <<65533>> \o rest(2)
                     ELSE <<(a - 224) * 4096 + (s[2] - 128) * 64 + (s[3] - 128)>> \o rest(3)
             ELSE IF a \in 240..244 THEN
                 LET lo == IF a = 240 THEN 144 ELSE 128
                     hi == IF a = 244 THEN 143 ELSE 191
                 IN  IF ~(n >= 2 /\ s[2] \in lo..hi) THEN <<65533>> \o rest(1)
                     ELSE IF ~(n >= 3 /\ IsCont(s[3])) THEN <<65533>> \o rest(2)
                     ELSE IF ~(n >= 4 /\ IsCont(s[4])) THEN <<65533>> \o rest(3)
                     ELSE LET cp == (a - 240) * 262144 + (s[2] - 128) * 4096
                                        + (s[3] - 128) * 64 + (s[4] - 128) - 65536
                          IN  <<55296 + (cp \div 1024), 56320 + (cp % 1024)>> \o rest(4)
             ELSE <<65533>> \o rest(1)

\* new TextDecoder('utf-8').decode(bytes): a leading byte order mark is dropped
TextDecodeUtf8(s) ==
    IF Len(s) >= 3 /\ SubSeq(s, 1, 3) = <<239, 187, 191>>
    THEN Utf8(SubSeq(s, 4, Len(s)))
    ELSE Utf8(s)

RECURSIVE Utf16be(_)
Utf16be(s) ==
    IF s = <<>> THEN <<>>
    ELSE IF Len(s) = 1 THEN <<65533>>
    ELSE <<s[1] * 256 + s[2]>> \o Utf16be(SubSeq(s, 3, Len(s)))

\* new TextDecoder('utf-16be').decode(bytes) on text without surrogates
TextDecodeUtf16be(s) ==
    IF Len(s) >= 2 /\ SubSeq(s, 1, 2) = <<254, 255>>
    THEN Utf16be(SubSeq(s, 3, Len(s)))
    ELSE Utf16be(s)

\* result.replace(/\0/g, '')
RemoveNul(s) == SelectSeq(s, LAMBDA c : c # 0)

B64Alphabet ==
    <<65, 66, 67, 68, 69, 70, 71, 72, 73, 74, 75, 76, 77, 78, 79, 80, 81, 82, 83,
      84, 85, 86, 87, 88, 89, 90, 97, 98, 99, 100, 101, 102, 103, 104, 105, 106,
      107, 108, 109, 110, 111, 112, 113, 114, 115, 116, 117, 118, 119, 120, 121,
      122, 48, 49, 50, 51, 52, 53, 54, 55, 56, 57, 43, 47>>
B64(k) == B64Alphabet[k + 1]

RECURSIVE btoa(_)
btoa(s) ==
    IF s = <<>> THEN <<>>
    ELSE IF Len(s) = 1 THEN
        <<B64(s[1] \div 4), B64((s[1] % 4) * 16), 61, 61>>
    ELSE IF Len(s) = 2 THEN
        <<B64(s[1] \div 4), B64((s[1] % 4) * 16 + (s[2] \div 16)),
          B64((s[2] % 16) * 4), 61>>
    ELSE <<B64(s[1] \div 4), B64((s[1] % 4) * 16 + (s[2] \div 16)),
           B64((s[2] % 16) * 4 + (s[3] \div 64)), B64(s[3] % 64)>>
             \o btoa(SubSeq(s, 4, Len(s)))

\* arrayBufferToBase64 of a Uint8Array over a slice
arrayBufferToBase64(bytes) == btoa(bytes)

-----------------------------------------------------------------------------
(* MusicMetadataExtractor: the helpers of the format parsers *)

\* Whether the identifier audioData is bound where the function uses it:
\* readString, readTextFrame and readAPICFrame take (view, offset, ...) and
\* name audioData without declaring it; evaluating it throws ReferenceError.
AudioDataInScope(fn) == fn \notin {"readString", "readTextFrame", "readAPICFrame"}

RECURSIVE Latin1Loop(_, _, _, _)
\* readString's catch branch: bytes as characters up to the first 0
Latin1Loop(b, off, length, k) ==
    IF k >= length THEN Ok(<<>>)
    ELSE IF ~InBuf(b, off + k, 1) THEN Thrown("RangeError")
    ELSE IF At(b, off + k) = 0 THEN Ok(<<>>)
    ELSE LET r == Latin1Loop(b, off, length, k + 1)
         IN  IF r.t THEN r ELSE Ok(<<At(b, off + k)>> \o r.v)

readString(b, off, length) ==
    IF length <= 0 THEN Ok(<<>>)
    ELSE IF AudioDataInScope("readString")
    THEN Ok(trim(RemoveNul(TextDecodeUtf8(slice(b, off, off + length)))))
    ELSE LET r == Latin1Loop(b, off, length, 0)
         IN  IF r.t THEN r ELSE Ok(trim(r.v))

readTextFrame(b, off, size) ==
    IF size <= 1 THEN Ok(Null)
    ELSE LET encoding == getUint8(b, off)
             text == readString(b, off + 1, size - 1)
         IN  IF encoding.t THEN encoding
             ELSE IF text.t THEN text
             ELSE IF AudioDataInScope("readTextFrame")
             THEN Ok(IF encoding.v = 1
                     THEN TextDecodeUtf16be(slice(b, off + 1, off + size))
                     ELSE TextDecodeUtf8(slice(b, off + 1, off + size)))
             ELSE text

RECURSIVE ScanNul(_, _, _)
\* while (p < limit && view.getUint8(p) !== 0) p++
ScanNul(b, p, limit) ==
    IF p >= limit THEN Ok(p)
    ELSE IF ~InBuf(b, p, 1) THEN Thrown("RangeError")
    ELSE IF At(b, p) = 0 THEN Ok(p)
    ELSE ScanNul(b, p + 1, limit)

\* the try block of readAPICFrame
readAPICFrameTry(b, off, size) ==
    LET mimeEnd == ScanNul(b, off + 1, off + size - 1)
    IN  IF mimeEnd.t THEN mimeEnd
        ELSE LET mime == readString(b, off + 1, mimeEnd.v - (off + 1))
                 p == ScanNul(b, mimeEnd.v + 2, off + size - 1)
             IN  IF mime.t THEN mime
                 ELSE IF p.t THEN p
                 ELSE IF ~AudioDataInScope("readAPICFrame") THEN Thrown("ReferenceError")
                 ELSE LET imgPos == p.v + 1
                          imageSize == off + size - imgPos
                      IN  Ok([data |-> arrayBufferToBase64(slice(b, imgPos, imgPos + imageSize)),
                              mime |-> OrElse(mime.v, S_imagejpeg)])

\* null, or [data, mime]; the catch block turns every exception into null
readAPICFrame(b, off, size) ==
    IF size <= 4 THEN None
    ELSE LET r == readAPICFrameTry(b, off, size)
         IN  IF r.t THEN None ELSE Some(r.v)

estimateMP3Duration(b, dataOffset) == Frac(byteLength(b) - dataOffset, 128000 \div 8)

-----------------------------------------------------------------------------
(* Input buffers: how the files the model parses are laid out *)

U32BE(n) == <<n \div 16777216, (n \div 65536) % 256, (n \div 256) % 256, n % 256>>
U32LE(n) == <<n % 256, (n \div 256) % 256, (n \div 65536) % 256, n \div 16777216>>
U16LE(n) == <<n % 256, n \div 256>>
U24BE(n) == <<n \div 65536, (n \div 256) % 256, n % 256>>
SyncsafeBytes(n) ==
    <<(n \div 2097152) % 128, (n \div 16384) % 128, (n \div 128) % 128, n % 128>>

Buf(bytes, pad) == [bytes |-> bytes, pad |-> pad]
EmptyBuf == Buf(<<>>, 0)
Prefixes(bytes) == {Buf(SubSeq(bytes, 1, n), 0) : n \in 0..Len(bytes)}

\* an ID3v2.3 frame: id, 32-bit size, two flag bytes, body
Frame(id, body) == id \o U32BE(Len(body)) \o <<0, 0>> \o body
\* an ID3v2 tag that declares `declared` bytes of frames
ID3Tag(ver, flags, declared, frames) ==
    S_ID3 \o <<ver, 0, flags>> \o SyncsafeBytes(declared) \o frames

S_Test == <<84, 101, 115, 116>>
S_Artist == <<65, 114, 116, 105, 115, 116>>
S_Album == <<65, 108, 98, 117, 109>>
\* the 10-byte image stub of the round trip
JpegStub == <<255, 216, 255, 224, 0, 16, 74, 70, 73, 70>>
ApicBody(mime, image) == <<0>> \o mime \o <<0, 3, 0>> \o image

\* text frames as the specification's round trip builds them: encoding byte, text
RoundTripFrames ==
    Frame(S_TIT2, <<3>> \o S_Test) \o Frame(S_TPE1, <<3>> \o S_Artist)
        \o Frame(S_TALB, <<3>> \o S_Album) \o Frame(S_APIC, ApicBody(S_imagejpeg, JpegStub))
\* text frames that end with a terminator byte
TerminatedFrames ==
    Frame(S_TIT2, <<0>> \o S_Test \o <<0>>) \o Frame(S_TPE1, <<0>> \o S_Artist \o <<0>>)
        \o Frame(S_TALB, <<0, 32>> \o S_Album \o <<32, 0>>)
\* an empty title, a title of blanks, and an artist
BlankFrames ==
    Frame(S_TIT2, <<0, 0, 0>>) \o Frame(S_TALB, <<0, 32, 32, 0>>)
        \o Frame(S_TPE1, <<0>> \o S_Artist \o <<0>>)

\* a tag of 12 bytes whose TIT2 frame takes 16: the tag boundary is at offset 22,
\* the frame body at offsets 20..25
ShortTag == ID3Tag(3, 0, 12, Frame(S_TIT2, <<0>> \o S_Test \o <<0>>))
MP3Bytes ==
    {ID3Tag(3, 0, Len(RoundTripFrames), RoundTripFrames),
     ID3Tag(4, 0, Len(TerminatedFrames), TerminatedFrames),
     \* the tag declares more bytes than the file holds
     ID3Tag(3, 0, Len(TerminatedFrames) + 40, TerminatedFrames),
     \* frames followed by padding inside the tag
     ID3Tag(3, 0, Len(TerminatedFrames) + 24, TerminatedFrames \o [k \in 1..24 |-> 0]),
     ID3Tag(3, 0, Len(BlankFrames), BlankFrames),
     \* an extended header of 6 bytes
     ID3Tag(3, 64, 6 + Len(TerminatedFrames), U32BE(6) \o <<0, 0>> \o TerminatedFrames),
     \* version 2: the size field is read as a syncsafe integer, the header as 6 bytes
     ID3Tag(2, 0, 30, S_TIT2 \o <<0, 0>> \o <<0, 84, 101, 115, 116, 0, 0, 0, 0, 7>>
                        \o [k \in 1..14 |-> 0]),
     \* the tag ends inside the body of its only frame
     ShortTag,
     \* a size byte with its most significant bit set, no frames
     S_ID3 \o <<3, 0, 0, 0, 0, 0, 128>>,
     \* no tag: an MPEG frame header
     <<255, 251, 144, 0, 0, 0, 0, 0, 0, 0, 0, 0>>,
     <<73, 68, 50, 3, 0, 0, 0, 0, 0, 0, 0, 0>>}

\* whole files: a tag and AudioPad bytes of audio
AudioPad == 160000
MP3Buffers ==
    UNION {Prefixes(bs) : bs \in MP3Bytes} \cup {Buf(bs, AudioPad) : bs \in MP3Bytes}

N_song_mp3 == <<115, 111, 110, 103, 46, 109, 112, 51>>          \* "song.mp3"
N_a_MP3 == <<97, 46, 77, 80, 51>>                               \* "a.MP3"
N_win_Mp3 == <<67, 58, 92, 109, 92, 120, 46, 77, 112, 51>>      \* "C:\m\x.Mp3"
N_dot_mp3 == <<46, 109, 112, 51>>                               \* ".mp3"
N_e_ogg == <<101, 46, 111, 103, 103>>                           \* "e.ogg"
N_dot_ogg == <<46, 111, 103, 103>>                              \* ".ogg"
N_noext == <<110, 111, 101, 120, 116>>                          \* "noext"
N_dir_song == <<100, 105, 114, 46, 118, 50, 47, 115, 111, 110, 103>>  \* "dir.v2/song"
N_x_dot == <<120, 46>>                                          \* "x."
N_mp3_bak == <<97, 46, 109, 112, 51, 46, 98, 97, 107>>          \* "a.mp3.bak"

Input(b, path) == [audioData |-> b, filePath |-> path]

\* a FLAC metadata block: last-block flag and type, 24-bit length, body
FlacBlock(last, type, body) == <<last * 128 + type>> \o U24BE(Len(body)) \o body
\* a STREAMINFO body: 10 bytes of block and frame sizes, the 20-bit sample rate,
\* 3 bits of channels, 5 bits of sample size, the 36-bit sample count, an MD5
StreamInfo(sampleRate, totalHi, totalLo) ==
    <<16, 0, 16, 0, 0, 0, 0, 0, 0, 0>>
        \o <<sampleRate \div 4096, (sampleRate \div 16) % 256,
             (sampleRate % 16) * 16 + 2 + 0, 15 * 16 + totalHi>>
        \o U32BE(totalLo) \o [k \in 1..16 |-> 0]
VorbisEntry(s) == U32BE(Len(s)) \o s
S_vend == <<118, 101, 110, 100>>
C_TITLE_Song == <<84, 73, 84, 76, 69, 61, 83, 111, 110, 103>>      \* "TITLE=Song"
C_title_Low == <<116, 105, 116, 108, 101, 61, 76, 111, 119>>       \* "title=Low"
C_Artist_Me == <<65, 114, 116, 105, 115, 116, 61, 77, 101>>        \* "Artist=Me"
C_ALBUM_LP == <<65, 76, 66, 85, 77, 61, 76, 80>>                   \* "ALBUM=LP"
C_TITLE_Two == <<84, 73, 84, 76, 69, 61, 84, 119, 111>>            \* "TITLE=Two"
C_ALBUM_eq == <<65, 76, 66, 85, 77, 61, 97, 61, 98>>               \* "ALBUM=a=b"
C_ARTIST_empty == <<65, 82, 84, 73, 83, 84, 61>>                   \* "ARTIST="
C_GENRE == <<71, 69, 78, 82, 69, 61, 195, 169>>                    \* "GENRE=é"
VorbisBody(count, entries) == VorbisEntry(S_vend) \o U32BE(count) \o entries
PictureBody(mime, image) ==
    U32BE(3) \o U32BE(Len(mime)) \o mime \o U32BE(0) \o U32BE(1) \o U32BE(1)
        \o U32BE(24) \o U32BE(0) \o U32BE(Len(image)) \o image

FourComments ==
    VorbisEntry(C_TITLE_Song) \o VorbisEntry(C_Artist_Me) \o VorbisEntry(C_ALBUM_LP)
        \o VorbisEntry(C_TITLE_Two)
OddComments ==
    VorbisEntry(C_GENRE) \o VorbisEntry(C_ARTIST_empty) \o VorbisEntry(C_ALBUM_eq)
        \o VorbisEntry(C_title_Low)

\* stream information, four comments of which two are titles, and a picture
FlacTagged ==
    S_fLaC \o FlacBlock(0, 0, StreamInfo(44100, 0, 441000))
        \o FlacBlock(0, 4, VorbisBody(4, FourComments))
        \o FlacBlock(1, 6, PictureBody(S_imagepng, JpegStub))
\* no block carries the last-block flag; the comment count exceeds the entries
FlacNoLastHead == S_fLaC \o FlacBlock(0, 4, VorbisBody(9, OddComments))
FlacNoLast ==
    FlacNoLastHead \o FlacBlock(0, 6, PictureBody(<<>>, JpegStub))
        \o FlacBlock(0, 0, StreamInfo(8, 0, 80))
FLACBytes ==
    {FlacTagged,
     FlacNoLast,
     \* a sample rate of 0, and a block of an unknown type
     S_fLaC \o FlacBlock(0, 1, <<0, 0>>) \o FlacBlock(1, 0, StreamInfo(0, 3, 1000)),
     \* the last block is the first one; what follows is not read
     S_fLaC \o FlacBlock(1, 0, StreamInfo(48000, 0, 96000))
          \o FlacBlock(1, 4, VorbisBody(1, VorbisEntry(C_TITLE_Song))),
     <<79, 103, 103, 83, 0, 2, 0, 0>>}

FLACBuffers == UNION {Prefixes(bs) : bs \in FLACBytes}
N_b_flac == <<98, 46, 102, 108, 97, 99>>                        \* "b.flac"
N_B_FLAC == <<66, 46, 70, 76, 65, 67>>                          \* "B.FLAC"
FLACInputs ==
    {Input(b, N_b_flac) : b \in FLACBuffers}
        \cup {Input(Buf(bs, 0), N_B_FLAC) : bs \in FLACBytes}

MP3Inputs ==
    {Input(b, N_song_mp3) : b \in MP3Buffers}
        \cup {Input(Buf(bs, AudioPad), n) : bs \in MP3Bytes, n \in {N_a_MP3, N_win_Mp3, N_dot_mp3}}

\* a RIFF chunk whose size field is written little-endian, as WAV files store
\* it, or big-endian, as parseWAV reads it
ChunkLE(id, size, body) == id \o U32LE(size) \o body
ChunkBE(id, size, body) == id \o U32BE(size) \o body
FmtLE(rate, bRate) ==
    U16LE(1) \o U16LE(2) \o U32LE(rate) \o U32LE(bRate) \o U16LE(4) \o U16LE(16)
FmtBE(rate, bRate) == <<0, 1, 0, 2>> \o U32BE(rate) \o U32BE(bRate) \o <<0, 4, 0, 16>>
Riff(chunks) == S_RIFF \o <<0, 0, 0, 0>> \o S_WAVE \o chunks
InfoList(entries) == ChunkBE(S_LIST, 4 + Len(entries), S_INFO \o entries)
InfoEntry(id, s) ==
    ChunkBE(id, Len(s) + 1, s \o <<0>>) \o (IF Len(s) % 2 = 0 THEN <<0>> ELSE <<>>)

\* a minimal WAV file as the format stores it: header, fmt with a byte rate of
\* 176400, data of 1764000 bytes
WavLE == Riff(ChunkLE(S_fmt, 16, FmtLE(44100, 176400)) \o S_data \o U32LE(1764000))
\* the same file with every size field and fmt field big-endian
WavBE == Riff(ChunkBE(S_fmt, 16, FmtBE(44100, 176400)) \o S_data \o U32BE(1764000))
\* small numbers stored little-endian: 2 bytes per second, 20 bytes of data
WavSmallLE == Riff(ChunkLE(S_fmt, 16, FmtLE(1, 2)) \o S_data \o U32LE(20))
WavTagged ==
    Riff(ChunkBE(S_fmt, 16, FmtBE(8000, 16000))
         \o InfoList(InfoEntry(S_INAM, S_Test) \o InfoEntry(S_IART, S_Artist)
                     \o InfoEntry(S_ICRD, <<50, 48>>) \o InfoEntry(S_IPRD, S_Album))
         \o ChunkBE(S_data, 32000, <<1, 2, 3, 4, 5, 6, 7, 8, 9, 10>>))
WavOdd ==
    Riff(ChunkBE(<<74, 85, 78, 75>>, 3, <<1, 2, 3, 0>>)
         \o InfoList(InfoEntry(S_IART, S_Artist) \o ChunkBE(S_INAM, 0, <<>>)
                     \o InfoEntry(S_IPRD, S_Album))
         \o ChunkBE(S_LIST, 4, <<97, 100, 116, 108>>)
         \o ChunkBE(S_fmt, 16, FmtBE(8000, 0))
         \o ChunkBE(S_data, 8, <<1, 2, 3, 4, 5, 6, 7, 8, 9>>))

WAVBuffers ==
    {Buf(WavLE, 1764000), Buf(WavBE, 1764000), Buf(WavSmallLE, 20)}
        \cup Prefixes(WavLE) \cup Prefixes(WavTagged) \cup Prefixes(WavOdd)
        \cup {Buf(<<82, 73, 70, 88, 0, 0, 0, 0, 87, 65, 86, 69>> \o SubSeq(WavTagged, 13, 60), 0),
              Buf(<<82, 73, 70, 70, 0, 0, 0, 0, 65, 86, 73, 32, 0, 0, 0, 0>>, 0),
              Buf(<<79, 103, 103, 83, 0, 2, 0, 0, 0, 0, 0, 0, 0>>, 0)}
N_d_wav == <<100, 46, 119, 97, 118>>                            \* "d.wav"
WAVInputs == {Input(b, N_d_wav) : b \in WAVBuffers}

\* an MP4 box: 32-bit size, type, payload
Box(type, payload) == U32BE(8 + Len(payload)) \o type \o payload
\* a box that declares `size` bytes whatever its payload
BoxSized(size, type, payload) == U32BE(size) \o type \o payload
Stts(count, delta) == Box(S_stts, <<0, 0, 0, 0>> \o U32BE(1) \o U32BE(count) \o U32BE(delta))
Hdlr == Box(S_hdlr, <<0, 0, 0, 0, 0, 0, 0, 0, 115, 111, 117, 110>>)
PngStub == <<137, 80, 78, 71, 13, 10, 26, 10>>
DataBox(s) == Box(S_data, <<0, 0, 0, 1>> \o s)

\* a file laid out as the format lays it out: moov/trak/mdia/minf/stts, moov/ilst
M4ATree ==
    Box(S_ftyp, <<77, 52, 65, 32>>)
        \o Box(S_moov,
               Box(S_trak, Box(S_mdia, Hdlr \o Box(S_minf, Box(S_stsd, <<0, 0, 0, 0>>)
                                                          \o Stts(44100, 1000))))
               \o Box(S_ilst, Box(S_covr, JpegStub) \o DataBox(S_Test)))
\* boxes at the top level: mdia with a minf whose first child spans its siblings
M4AFlat ==
    Box(S_mdia, Hdlr \o Box(S_minf, BoxSized(60, S_free, <<>>) \o Box(S_free, <<1, 2>>)
                                    \o Stts(3000, 10000) \o Box(S_stsd, <<0, 0, 0, 0>>)
                                    \o Stts(0, 0)))
        \o Box(S_ilst, DataBox(S_Album) \o Box(S_covr, PngStub) \o Box(S_free, <<>>))
        \o Box(S_free, <<0, 0, 0, 0, 0, 0, 0, 0, 0>>)
\* a box of size 0, and one smaller than its header
M4AZero ==
    Box(S_ilst, Box(S_covr, JpegStub) \o BoxSized(0, S_free, <<>>) \o Box(S_covr, PngStub))
        \o BoxSized(3, S_free, <<0, 0, 0>>) \o Box(S_free, <<0, 0, 0, 0, 0, 0, 0, 0, 0, 0>>)
\* stts with an entry count of 0 only, and a trak without mdia
M4ANested ==
    Box(S_moov, Box(S_moov, Box(S_ilst, Box(S_covr, PngStub) \o Box(S_free, <<>>)))
                \o Box(S_trak, Hdlr \o Box(S_free, <<>>)))
        \o Box(S_free, <<0, 0, 0, 0, 0, 0, 0, 0, 0>>)

\* ilst at the top level, where parse walks it: a data box with text, then a cover
M4AData ==
    Box(S_ilst, DataBox(S_Test) \o Box(S_covr, PngStub) \o Box(S_free, <<>>))
        \o Box(S_free, <<0, 0, 0, 0, 0, 0, 0, 0, 0>>)

M4ABytes == {M4ATree, M4AFlat, M4AZero, M4ANested, M4AData}
M4ABuffers == UNION {Prefixes(bs) : bs \in M4ABytes}
N_c_m4a == <<99, 46, 109, 52, 97>>                              \* "c.m4a"
M4AInputs == {Input(b, N_c_m4a) : b \in M4ABuffers}

\* file names no parser is selected for, on buffers of every format
OtherNames == {N_e_ogg, N_dot_ogg, N_noext, N_dir_song, N_x_dot, N_mp3_bak, <<>>}
OtherInputs ==
    {Input(Buf(bs, 0), n) : bs \in MP3Bytes \cup FLACBytes \cup {WavTagged, M4ATree},
                              n \in OtherNames}
        \cup {Input(EmptyBuf, n) : n \in OtherNames}

Inputs == MP3Inputs \cup FLACInputs \cup WAVInputs \cup M4AInputs \cup OtherInputs

ProbeInputs ==
    {Input(Buf(bs, pad), N_song_mp3) : bs \in MP3Bytes, pad \in {0, AudioPad}}
        \cup {Input(Buf(bs, 0), N_b_flac) : bs \in FLACBytes}
        \cup {Input(Buf(bs, 0), N_d_wav) : bs \in {WavLE, WavTagged, WavOdd}}
        \cup {Input(Buf(bs, 0), N_c_m4a) : bs \in M4ABytes}
        \cup {Input(Buf(SubSeq(M4AZero, 1, 9), 0), N_c_m4a)}
        \cup {Input(EmptyBuf, n) : n \in {N_song_mp3, N_a_MP3, N_e_ogg, N_dot_ogg}}

-----------------------------------------------------------------------------
(* parseMetadata: the dispatcher *)

NoRecord ==
    [title |-> Null, artist |-> Null, album |-> Null, duration |-> Zero,
     cover |-> Null, coverType |-> Null, format |-> Null, filePath |-> Null]
NoProbe == [set |-> FALSE, audioData |-> EmptyBuf, filePath |-> <<>>]
\* how many calls on the probe are counted
MaxProbeCalls == 2
NoHistory == [calls |-> 0, between |-> FALSE]

\* the files the caller has: all of them, or the smaller set a probe is followed in
CallerInputs == IF probe.set THEN ProbeInputs ELSE Inputs

\* the steps counted for one call
MaxSteps == 24
\* a call in progress takes one more step
Tick ==
    /\ steps < MaxSteps
    /\ steps' = steps + 1

callVars == <<audioData, callerData, filePath, defaultMetadata>>
locals == <<offset, endOffset, version, pos, i, commentCount, result, findOffset,
            byteRate, stack>>

\* the locals of the parsers do not exist outside a call
LocalsGone ==
    /\ offset' = 0 /\ endOffset' = 0 /\ version' = 0 /\ pos' = 0 /\ i' = 0
    /\ commentCount' = 0 /\ result' = <<>> /\ findOffset' = 0 /\ byteRate' = 0
    /\ stack' = <<>>

IsProbe == probe.set /\ probe.audioData = callerData /\ probe.filePath = filePath

\* the caller's record of the call that settles now
Remember(m) ==
    /\ probeRet' = IF IsProbe /\ history.calls = 0 THEN m ELSE probeRet
    /\ history' = IF ~probe.set THEN history
                  ELSE IF IsProbe
                  THEN [history EXCEPT !.calls = Min(@ + 1, MaxProbeCalls)]
                  ELSE [history EXCEPT !.between = (history.calls > 0)]

\* parseMetadata's promise is fulfilled with m
Return(m) ==
    /\ pc' = "done"
    /\ ret' = m
    /\ outcome' = "returned"
    /\ Remember(m)
    /\ LocalsGone
    /\ UNCHANGED <<callVars, metadata, probe, player>>

\* an exception leaves the format parser
Throw(e) ==
    /\ pc' = "throw"
    /\ exc' = e
    /\ UNCHANGED <<callVars, metadata, ret, outcome, absorbed, locals, probe, player, probeRet,
                   history>>

\* the `return await` of each case keeps the parser's rejection inside the try
TryCatchesNoAwait(ext) == ext # S_mp3
TryCatches(ext) == TRUE

\* const metadata = { ...defaultMetadata }
Spread(d) == d

\* line 72: what the catch block returns, given the pre-seeded record and the
\* parser's working copy
CatchResultPartial(default, partial) == partial
CatchResult(default, partial) == default

Call(inp) ==
    /\ steps' = 0
    /\ pc = "idle"
    /\ audioData' = inp.audioData
    /\ callerData' = inp.audioData
    /\ filePath' = inp.filePath
    /\ defaultMetadata' = DefaultMetadata(inp.filePath)
    /\ exc' = ""
    /\ absorbed' = {}
    /\ UNCHANGED <<probe, player, metadata, locals>>
    /\ LET ext == Ext(inp.filePath)
           isProbe == probe.set /\ probe.audioData = inp.audioData
                         /\ probe.filePath = inp.filePath
       IN  IF ext \in {S_mp3, S_flac, S_m4a, S_wav}
           THEN /\ pc' = (CASE ext = S_mp3 -> "parseMP3"
                            [] ext = S_flac -> "parseFLAC"
                            [] ext = S_m4a -> "parseM4A"
                            [] OTHER -> "parseWAV")
                /\ ret' = NoRecord
                /\ outcome' = "none"
                /\ UNCHANGED <<probeRet, history>>
           ELSE \* default: return defaultMetadata
                /\ pc' = "done"
                /\ ret' = defaultMetadata'
                /\ outcome' = "returned"
                /\ probeRet' = IF isProbe /\ history.calls = 0
                               THEN defaultMetadata' ELSE probeRet
                /\ history' = IF ~probe.set THEN history
                              ELSE IF isProbe
                              THEN [history EXCEPT !.calls = Min(@ + 1, MaxProbeCalls)]
                              ELSE [history EXCEPT !.between = (history.calls > 0)]

\* catch (error) { return defaultMetadata }
Catch ==
    /\ Tick
    /\ pc = "throw"
    /\ IF TryCatches(Ext(filePath))
       THEN /\ Return(CatchResult(defaultMetadata, metadata))
            /\ absorbed' = absorbed \cup {"parseMetadata"}
            /\ UNCHANGED exc
       ELSE /\ pc' = "done"
            /\ outcome' = "rejected"
            /\ LocalsGone
            /\ UNCHANGED <<callVars, metadata, ret, exc, absorbed, probe, player, probeRet,
                           history>>

\* the caller takes the settled promise; its arguments and the result are the
\* caller's from here on, and the extractor keeps neither
Await ==
    /\ steps' = 0
    /\ pc = "done"
    /\ pc' = "idle"
    /\ audioData' = EmptyBuf
    /\ callerData' = EmptyBuf
    /\ filePath' = <<>>
    /\ ret' = NoRecord
    /\ outcome' = "none"
    /\ exc' = ""
    /\ absorbed' = {}
    /\ metadata' = NoRecord
    /\ UNCHANGED <<defaultMetadata, locals, probe, player, probeRet, history>>

-----------------------------------------------------------------------------
(* parseMP3 *)

\* lines 81-98: the header
ParseMP3 ==
    /\ Tick
    /\ pc = "parseMP3"
    /\ LET b == audioData
           isID3 == /\ At(b, 0) = 73
                    /\ At(b, 1) = 68
                    /\ At(b, 2) = 51
           \* the bytes the && chain reads before it is decided
           magicRead == IF At(b, 0) # 73 THEN 1 ELSE IF At(b, 1) # 68 THEN 2 ELSE 3
       IN  IF ~InBuf(b, 0, magicRead) THEN Throw("RangeError")
           ELSE IF ~isID3
           THEN Return(Spread(defaultMetadata)) /\ UNCHANGED <<exc, absorbed>>
           ELSE IF ~InBuf(b, 3, 7) THEN Throw("RangeError")
           ELSE LET flags == At(b, 5)
                    size == Syncsafe(b, 6)
                    hasExt == (flags \div 64) % 2 = 1
                IN  IF hasExt /\ ~InBuf(b, 10, 4) THEN Throw("RangeError")
                    ELSE /\ pc' = "mp3"
                         /\ metadata' = Spread(defaultMetadata)
                         /\ version' = At(b, 3)
                         /\ offset' = IF hasExt THEN 10 + U32(b, 10) ELSE 10
                         /\ endOffset' = 10 + size
                         /\ UNCHANGED <<callVars, ret, outcome, exc, absorbed, pos, i,
                                        commentCount, result, findOffset, byteRate,
                                        stack, probe, player, probeRet, history>>

\* lines 138-142: after the frame loop
MP3Return(m) ==
    Return([m EXCEPT !.duration = estimateMP3Duration(audioData, endOffset)])

\* lines 100-136: one iteration of the frame loop
MP3Frame ==
    /\ Tick
    /\ pc = "mp3"
    /\ offset < endOffset - 10
    /\ LET b == audioData
           hdr == IF version >= 3 THEN 10 ELSE 6
       IN  IF ~InBuf(b, offset, 8) THEN Throw("RangeError")
           ELSE
           LET frameId == Str4(b, offset)
               frameSize == IF version >= 3 THEN U32(b, offset + 4)
                            ELSE Syncsafe(b, offset + 4)
               frameDataOffset == offset + hdr
               isText == frameId \in {S_TIT2, S_TPE1, S_TALB}
               text == readTextFrame(b, frameDataOffset, frameSize - 1)
               coverData == readAPICFrame(b, frameDataOffset, frameSize)
           IN  IF frameSize <= 0 \/ offset + frameSize > endOffset
               THEN MP3Return(metadata) /\ UNCHANGED <<exc, absorbed>>
               ELSE IF isText /\ text.t THEN Throw(text.v)
               ELSE /\ metadata' =
                         (CASE frameId = S_TIT2 ->
                                   [metadata EXCEPT !.title = OrElse(text.v, @)]
                            [] frameId = S_TPE1 ->
                                   [metadata EXCEPT !.artist = OrElse(text.v, @)]
                            [] frameId = S_TALB ->
                                   [metadata EXCEPT !.album = OrElse(text.v, @)]
                            [] frameId = S_APIC /\ coverData.some ->
                                   [metadata EXCEPT !.cover = coverData.v.data,
                                                    !.coverType = coverData.v.mime]
                            [] OTHER -> metadata)
                    /\ offset' = offset + hdr + frameSize
                    /\ absorbed' = IF frameId = S_APIC /\ frameSize > 4
                                      /\ readAPICFrameTry(b, frameDataOffset, frameSize).t
                                   THEN absorbed \cup {"readAPICFrame"} ELSE absorbed
                    /\ UNCHANGED <<pc, callVars, ret, outcome, exc, endOffset, version,
                                   pos, i, commentCount, result, findOffset, byteRate,
                                   stack, probe, player, probeRet, history>>

\* the loop condition fails
MP3Exit ==
    /\ Tick
    /\ pc = "mp3"
    /\ ~(offset < endOffset - 10)
    /\ MP3Return(metadata)
    /\ UNCHANGED <<exc, absorbed>>

-----------------------------------------------------------------------------
(* parseFLAC *)

\* int32(view.getUint32(off)) >> 12: the top 20 bits, as a signed number
U32Shr12(b, off) ==
    LET hi20 == At(b, off) * 4096 + At(b, off + 1) * 16 + (At(b, off + 2) \div 16)
    IN  IF hi20 >= 524288 THEN hi20 - 1048576 ELSE hi20

\* nibble | x for a nibble in 0..15 and an int32 x
BitOrNibble(nibble, x) == (x - (x % 16)) + BitOr(x % 16, nibble)

\* (x & 0xF) << 32: JavaScript takes a shift count modulo 32
Shl32(x) == x

\* lines 175-178, on a block body that is in range
StreamInfoSampleRate(b, blockDataOffset) ==
    LowBits(U32Shr12(b, blockDataOffset + 10), 1048575)
StreamInfoTotalSamples(b, blockDataOffset) ==
    BitOrNibble(Shl32(LowBits(At(b, blockDataOffset + 16), 15)),
                U32Shr12(b, blockDataOffset + 10))
StreamInfoDuration(b, blockDataOffset) ==
    LET sampleRate == StreamInfoSampleRate(b, blockDataOffset)
        totalSamples == StreamInfoTotalSamples(b, blockDataOffset)
    IN  IF sampleRate > 0 THEN Frac(totalSamples, sampleRate) ELSE Zero

\* the try block of parseFLACPicture
parseFLACPictureTry(b, off) ==
    LET mimeLength == getUint32(b, off + 4)
    IN  IF mimeLength.t THEN mimeLength
        ELSE
        LET mime == readString(b, off + 8, mimeLength.v)
            descAt == off + 8 + mimeLength.v
            descLength == getUint32(b, descAt)
        IN  IF mime.t THEN mime
            ELSE IF descLength.t THEN descLength
            ELSE
            LET sizeAt == descAt + 4 + descLength.v + 16
                imageSize == getUint32(b, sizeAt)
            IN  IF imageSize.t THEN imageSize
                ELSE Ok([data |-> arrayBufferToBase64(
                                      slice(b, sizeAt + 4, sizeAt + 4 + imageSize.v)),
                         mime |-> OrElse(mime.v, S_imagejpeg)])

parseFLACPicture(b, off, size) ==
    LET r == parseFLACPictureTry(b, off)
    IN  IF r.t THEN None ELSE Some(r.v)

\* comment.split('='): the part before the first '=' and the part between the
\* first and the second one (undefined when there is no '=')
SplitEq(comment) ==
    LET eqs == {k \in 1..Len(comment) : comment[k] = 61}
        first == IF eqs = {} THEN Len(comment) + 1
                 ELSE CHOOSE k \in eqs : \A h \in eqs : k <= h
        later == {k \in eqs : k > first}
        second == IF later = {} THEN Len(comment) + 1
                  ELSE CHOOSE k \in later : \A h \in later : k <= h
    IN  [key |-> SubSeq(comment, 1, first - 1),
         value |-> IF eqs = {} THEN Null ELSE SubSeq(comment, first + 1, second - 1)]


\* lines 413-419: one comment applied to result
ApplyComment(res, comment) ==
    LET kv == SplitEq(comment)
        upperKey == toUpperCase(kv.key)
    IN  IF kv.key # <<>> /\ kv.value # Null /\ kv.value # <<>>
        THEN CASE upperKey = S_TITLE -> [res EXCEPT !.title = kv.value]
               [] upperKey = S_ARTIST -> [res EXCEPT !.artist = kv.value]
               [] upperKey = S_ALBUM -> [res EXCEPT !.album = kv.value]
               [] OTHER -> res
        ELSE res

FlacBlockSize(b, off) ==
    BitOr(BitOr(At(b, off + 1) * 65536, At(b, off + 2) * 256), At(b, off + 3))
FlacIsLast(b, off) == At(b, off) \div 128 = 1
FlacBlockType(b, off) == At(b, off) % 128

flacUnchanged == <<callVars, ret, outcome, exc, endOffset, version, findOffset,
                   byteRate, stack, probe, player, probeRet, history>>

\* lines 149-161: the signature
ParseFLAC ==
    /\ Tick
    /\ pc = "parseFLAC"
    /\ IF ~InBuf(audioData, 0, 4) THEN Throw("RangeError")
       ELSE IF Str4(audioData, 0) # S_fLaC
       THEN Return(Spread(defaultMetadata)) /\ UNCHANGED <<exc, absorbed>>
       ELSE /\ pc' = "flac"
            /\ metadata' = Spread(defaultMetadata)
            /\ offset' = 4
            /\ UNCHANGED <<flacUnchanged, absorbed, pos, i, commentCount, result>>

\* lines 194-195: the end of an iteration of the block loop
FlacAdvance(m) ==
    IF FlacIsLast(audioData, offset)
    THEN Return(m) /\ UNCHANGED exc
    ELSE /\ pc' = "flac"
         /\ metadata' = m
         /\ offset' = offset + 4 + FlacBlockSize(audioData, offset)
         /\ pos' = 0 /\ i' = 0 /\ commentCount' = 0 /\ result' = <<>>
         /\ UNCHANGED flacUnchanged

\* lines 163-196: one iteration of the block loop; a VORBIS_COMMENT block
\* enters parseVorbisComments (lines 393-404)
FLACBlock ==
    /\ Tick
    /\ pc = "flac"
    /\ offset < byteLength(audioData)
    /\ LET b == audioData
           blockType == FlacBlockType(b, offset)
           blockSize == FlacBlockSize(b, offset)
           blockDataOffset == offset + 4
           vendorLength == getUint32(b, blockDataOffset)
           count == getUint32(b, blockDataOffset + 4 + vendorLength.v)
           pictureData == parseFLACPicture(b, blockDataOffset, blockSize)
       IN  IF ~InBuf(b, offset, 4) THEN Throw("RangeError")
           ELSE IF blockType = 0 THEN
               IF ~InBuf(b, blockDataOffset + 13, 4) THEN Throw("RangeError")
               ELSE /\ FlacAdvance([metadata EXCEPT
                                      !.duration = StreamInfoDuration(b, blockDataOffset)])
                    /\ UNCHANGED absorbed
           ELSE IF blockType = 4 THEN
               /\ metadata' = metadata
               /\ result' = [title |-> Null, artist |-> Null, album |-> Null]
               /\ i' = 0
               /\ IF vendorLength.t \/ count.t
                  THEN /\ pc' = "vorbisCaught"
                       /\ pos' = blockDataOffset
                       /\ commentCount' = 0
                  ELSE /\ pc' = "vorbis"
                       /\ pos' = blockDataOffset + 4 + vendorLength.v + 4
                       /\ commentCount' = count.v
               /\ UNCHANGED <<flacUnchanged, absorbed, offset>>
           ELSE IF blockType = 6 THEN
               /\ FlacAdvance(IF pictureData.some
                              THEN [metadata EXCEPT !.cover = pictureData.v.data,
                                                    !.coverType = pictureData.v.mime]
                              ELSE metadata)
               /\ absorbed' = IF pictureData.some THEN absorbed
                              ELSE absorbed \cup {"parseFLACPicture"}
           ELSE FlacAdvance(metadata) /\ UNCHANGED absorbed

VorbisCond ==
    i < commentCount /\ pos < offset + 4 + FlacBlockSize(audioData, offset) - 4

\* lines 406-422: one iteration of the comment loop
VorbisComment ==
    /\ Tick
    /\ pc = "vorbis"
    /\ VorbisCond
    /\ LET commentLength == getUint32(audioData, pos)
       IN  IF commentLength.t
           THEN /\ pc' = "vorbisCaught"
                /\ UNCHANGED <<pos, i, result>>
           ELSE /\ pc' = "vorbis"
                /\ result' = ApplyComment(result,
                       TextDecodeUtf8(slice(audioData, pos + 4, pos + 4 + commentLength.v)))
                /\ pos' = pos + 4 + commentLength.v
                /\ i' = i + 1
    /\ UNCHANGED <<flacUnchanged, absorbed, metadata, offset, commentCount>>

\* lines 182-184: parseVorbisComments has returned result
VorbisMerge ==
    [metadata EXCEPT !.title = OrElse(result.title, @),
                     !.artist = OrElse(result.artist, @),
                     !.album = OrElse(result.album, @)]

\* the comment loop ends, or the catch block of parseVorbisComments has run
VorbisReturn ==
    /\ Tick
    /\ \/ pc = "vorbis" /\ ~VorbisCond
       \/ pc = "vorbisCaught"
    /\ FlacAdvance(VorbisMerge)
    /\ absorbed' = IF pc = "vorbisCaught" THEN absorbed \cup {"parseVorbisComments"}
                   ELSE absorbed

\* the block loop's condition fails
FLACExit ==
    /\ Tick
    /\ pc = "flac"
    /\ ~(offset < byteLength(audioData))
    /\ Return(metadata)
    /\ UNCHANGED <<exc, absorbed>>

-----------------------------------------------------------------------------
(* parseWAV *)

wavUnchanged == <<callVars, ret, outcome, exc, absorbed, version, i, commentCount,
                  stack, probe, player, probeRet, history>>

\* lines 228-239: the signatures
ParseWAV ==
    /\ Tick
    /\ pc = "parseWAV"
    /\ LET b == audioData
       IN  IF ~InBuf(b, 0, 3) THEN Throw("RangeError")
           ELSE IF <<At(b, 0), At(b, 1), At(b, 2)>> # S_RIF
           THEN Return(Spread(defaultMetadata)) /\ UNCHANGED <<exc, absorbed>>
           ELSE IF ~InBuf(b, 8, 4) THEN Throw("RangeError")
           ELSE IF Str4(b, 8) # S_WAVE
           THEN Return(Spread(defaultMetadata)) /\ UNCHANGED <<exc, absorbed>>
           ELSE /\ pc' = "wav"
                /\ metadata' = Spread(defaultMetadata)
                /\ offset' = 12
                /\ UNCHANGED <<wavUnchanged, endOffset, pos, result, findOffset, byteRate>>

\* the size field of the chunk at off, as parseWAV reads it: view.getUint32(off + 4)
WavChunkSize(b, off) == U32(b, off + 4)

\* offset += 8 + chunkSize; if (chunkSize % 2 !== 0) offset++
NextChunk(off, chunkSize) == off + 8 + chunkSize + (IF chunkSize % 2 # 0 THEN 1 ELSE 0)

\* lines 275-277: the end of an iteration of the chunk loop
WavAdvance(m) ==
    /\ pc' = "wav"
    /\ metadata' = m
    /\ offset' = NextChunk(offset, WavChunkSize(audioData, offset))
    /\ endOffset' = 0 /\ pos' = 0 /\ result' = <<>> /\ findOffset' = 0 /\ byteRate' = 0
    /\ UNCHANGED wavUnchanged

NoInfo == [INAM |-> Null, IART |-> Null, IPRD |-> Null, ICRD |-> Null, IGNR |-> Null]

\* lines 241-278: one iteration of the chunk loop; a fmt chunk enters
\* findWAVDataSize, a LIST chunk of type INFO enters parseWAVInfo
WAVChunk ==
    /\ Tick
    /\ pc = "wav"
    /\ offset < byteLength(audioData) - 8
    /\ LET b == audioData
           chunkId == Str4(b, offset)
           chunkSize == WavChunkSize(b, offset)
       IN  IF chunkId = S_fmt THEN
               IF ~InBuf(b, offset + 10, 14) THEN Throw("RangeError")
               ELSE /\ pc' = "wavFind"
                    /\ byteRate' = U32(b, offset + 16)
                    /\ findOffset' = offset + 8 + chunkSize
                    /\ UNCHANGED <<wavUnchanged, metadata, offset, endOffset, pos, result>>
           ELSE IF chunkId = S_LIST THEN
               IF ~InBuf(b, offset + 8, 4) THEN Throw("RangeError")
               ELSE IF Str4(b, offset + 8) = S_INFO
               THEN /\ pc' = "wavInfo"
                    /\ pos' = offset + 12
                    /\ endOffset' = offset + 12 + (chunkSize - 4)
                    /\ result' = NoInfo
                    /\ UNCHANGED <<wavUnchanged, metadata, offset, findOffset, byteRate>>
               ELSE WavAdvance(metadata)
           ELSE WavAdvance(metadata)

FindCond == findOffset < byteLength(audioData) - 8

\* lines 288-301: an iteration of findWAVDataSize on a chunk that is not `data`
WAVFindStep ==
    /\ Tick
    /\ pc = "wavFind"
    /\ FindCond
    /\ Str4(audioData, findOffset) # S_data
    /\ findOffset' = NextChunk(findOffset, WavChunkSize(audioData, findOffset))
    /\ UNCHANGED <<wavUnchanged, pc, metadata, offset, endOffset, pos, result, byteRate>>

\* findWAVDataSize returns (lines 296, 302), and lines 257-259
WAVFindReturn ==
    /\ Tick
    /\ pc = "wavFind"
    /\ ~FindCond \/ Str4(audioData, findOffset) = S_data
    /\ LET dataChunkSize == IF FindCond THEN WavChunkSize(audioData, findOffset) ELSE 0
       IN  WavAdvance(IF dataChunkSize > 0 /\ byteRate > 0
                      THEN [metadata EXCEPT !.duration = Frac(dataChunkSize, byteRate)]
                      ELSE metadata)

InfoCond == pos < endOffset - 8
InfoIds == {S_INAM, S_IART, S_IPRD, S_ICRD, S_IGNR}
\* line 321: if (dataSize <= 0 || pos + 8 + dataSize > endOffset) break
InfoBreak ==
    LET dataSize == U32(audioData, pos + 4)
    IN  dataSize <= 0 \/ pos + 8 + dataSize > endOffset

SetInfo(info, id, str) ==
    CASE id = S_INAM -> [info EXCEPT !.INAM = str]
      [] id = S_IART -> [info EXCEPT !.IART = str]
      [] id = S_IPRD -> [info EXCEPT !.IPRD = str]
      [] id = S_ICRD -> [info EXCEPT !.ICRD = str]
      [] id = S_IGNR -> [info EXCEPT !.IGNR = str]
      [] OTHER -> info

\* lines 314-330: an iteration of parseWAVInfo that does not break
WAVInfoStep ==
    /\ Tick
    /\ pc = "wavInfo"
    /\ InfoCond
    /\ ~InBuf(audioData, pos, 8) \/ ~InfoBreak
    /\ LET b == audioData
           id == Str4(b, pos)
           dataSize == U32(b, pos + 4)
           str == readString(b, pos + 8, Min(dataSize - 1, 256))
       IN  IF ~InBuf(b, pos, 8) THEN Throw("RangeError")
           ELSE IF id \in InfoIds /\ str.t THEN Throw(str.v)
           ELSE /\ result' = IF id \in InfoIds THEN SetInfo(result, id, str.v) ELSE result
                /\ pos' = NextChunk(pos, dataSize)
                /\ UNCHANGED <<wavUnchanged, pc, metadata, offset, endOffset, findOffset,
                               byteRate>>

\* parseWAVInfo returns info, and lines 269-271
WAVInfoReturn ==
    /\ Tick
    /\ pc = "wavInfo"
    /\ ~InfoCond \/ (InBuf(audioData, pos, 8) /\ InfoBreak)
    /\ WavAdvance([metadata EXCEPT !.title = OrElse(result.INAM, @),
                                   !.artist = OrElse(result.IART, @),
                                   !.album = OrElse(result.IPRD, @)])

\* the chunk loop's condition fails
WAVExit ==
    /\ Tick
    /\ pc = "wav"
    /\ ~(offset < byteLength(audioData) - 8)
    /\ Return(metadata)
    /\ UNCHANGED <<exc, absorbed>>

-----------------------------------------------------------------------------
(* parseM4A and M4AParser *)

\* An active call of a method of an M4AParser:
\*   fn         the method
\*   offset     this.offset of the parser it runs on
\*   endOffset  its const endOffset (parse has none)
\*   own        whether it runs on a parser of its own (a subParser) or on its caller's
\*   size       the size of the box whose handling made the call now in progress
\*   done       whether its loop has ended by break
\*   result     the result object it fills
M4AResult0 ==
    [title |-> Null, artist |-> Null, album |-> Null, duration |-> Zero,
     cover |-> Null, coverType |-> Null]

\* constructor(audioData): this.offset = 0
M4AParserOffset == 0

M4AFrame(fn, off, end, own, res) ==
    [fn |-> fn, offset |-> off, endOffset |-> end, own |-> own, size |-> 0,
     done |-> FALSE, result |-> res]

Top == stack[Len(stack)]

\* the loop condition of the method a call is in
M4ACond(f) ==
    IF f.fn = "parse" THEN f.offset < byteLength(audioData) - 8
    ELSE f.offset < f.endOffset - 8

\* this.offset += size, without the break on a zero size
M4ANextBoxNoBreak(f, from, size) == [f EXCEPT !.offset = from + size]

\* if (size === 0) break; this.offset += size
M4ANextBox(f, from, size) ==
    IF size = 0 THEN [f EXCEPT !.offset = from, !.done = TRUE]
    ELSE [f EXCEPT !.offset = from + size]

\* lines 675-687: the covr box at off
CoverOf(b, off, size) ==
    [cover |-> arrayBufferToBase64(slice(b, off + 8, off + 8 + (size - 8))),
     coverType |-> IF At(b, off + 8) = 137 THEN S_imagepng ELSE S_imagejpeg]

\* lines 649-654: the stts box at off
SttsDuration(b, off, old) ==
    IF U32(b, off + 12) > 0
    THEN Frac(U32(b, off + 16) * U32(b, off + 20), 10000000)
    ELSE old

m4aUnchanged == <<callVars, ret, outcome, exc, absorbed, metadata, offset, endOffset,
                  version, pos, i, commentCount, result, findOffset, byteRate, probe, player,
                  probeRet, history>>

\* lines 205-209
ParseM4A ==
    /\ Tick
    /\ pc = "parseM4A"
    /\ pc' = "m4a"
    /\ metadata' = Spread(defaultMetadata)
    /\ stack' = <<M4AFrame("parse", M4AParserOffset, 0, TRUE, M4AResult0)>>
    /\ UNCHANGED <<callVars, ret, outcome, exc, absorbed, offset, endOffset, version,
                   pos, i, commentCount, result, findOffset, byteRate, probe, player, probeRet,
                   history>>

\* an exception inside parser.parse() reaches the catch block of parseM4A
M4AThrow(e) ==
    /\ pc' = "m4aCaught"
    /\ exc' = e
    /\ UNCHANGED <<callVars, ret, outcome, absorbed, metadata, locals, probe, player, probeRet,
                   history>>

\* the prologue of parseTrack, parseMedia, parseMediaInfo and parseMetadata
\* (lines 582-583) on a parser whose offset is at
M4AEnter(caller, size, fn, at, own) ==
    IF ~InBuf(audioData, at, 4) THEN M4AThrow("RangeError")
    ELSE /\ stack' = Append([stack EXCEPT ![Len(stack)] = [caller EXCEPT !.size = size]],
                            M4AFrame(fn, at + 8, at + U32(audioData, at), own, caller.result))
         /\ UNCHANGED <<pc, m4aUnchanged>>

M4ASetTop(f) ==
    /\ stack' = [stack EXCEPT ![Len(stack)] = f]
    /\ UNCHANGED <<pc, m4aUnchanged>>

\* one iteration of the loop of the innermost call
\* lines 703-712: M4AParser.readString
M4AReadString(b, off, length) ==
    IF length <= 0 THEN <<>>
    ELSE trim(RemoveNul(TextDecodeUtf8(slice(b, off, off + length))))

\* a data box whose text is routed to the title
ReadDataBoxAsTitle(f, b, o, size) ==
    [f EXCEPT !.result.title = M4AReadString(b, o + 8 + 4, Min(size - 12, 256))]

\* lines 688-696: the data box at o; its text is read into a local and dropped
ReadDataBox(f, b, o, size) ==
    LET text == M4AReadString(b, o + 8 + 4, Min(size - 12, 256))
    IN  f

M4AStep ==
    /\ Tick
    /\ pc = "m4a"
    /\ ~Top.done /\ M4ACond(Top)
    /\ LET b == audioData
           f == Top
           o == f.offset
           size == U32(b, o)
           type == Str4(b, o + 4)
       IN  IF ~InBuf(b, o, 8) THEN M4AThrow("RangeError")
           ELSE IF f.fn = "parse" THEN
               \* lines 550-576
               IF type = S_moov THEN
                   /\ stack' = Append([stack EXCEPT ![Len(stack)] = [f EXCEPT !.size = size]],
                                      M4AFrame("parse", o + 8, 0, TRUE, M4AResult0))
                   /\ UNCHANGED <<pc, m4aUnchanged>>
               ELSE IF type = S_trak THEN M4AEnter(f, size, "parseTrack", o, FALSE)
               ELSE IF type = S_ilst THEN M4AEnter(f, size, "parseMetadata", o, FALSE)
               ELSE IF type = S_mdia THEN M4AEnter(f, size, "parseMedia", o, FALSE)
               ELSE M4ASetTop(M4ANextBox(f, o, size))
           ELSE IF f.fn = "parseTrack" THEN
               \* lines 585-602
               IF type = S_mdia THEN M4AEnter(f, size, "parseMedia", o + 8, TRUE)
               ELSE M4ASetTop(M4ANextBox(f, o, size))
           ELSE IF f.fn = "parseMedia" THEN
               \* lines 609-628
               IF type = S_minf THEN M4AEnter(f, size, "parseMediaInfo", o + 8, TRUE)
               ELSE M4ASetTop(M4ANextBox(f, o, size))
           ELSE IF f.fn = "parseMediaInfo" THEN
               \* lines 635-659
               IF type = S_stsd THEN M4ASetTop(M4ANextBox(f, o + size, size))
               ELSE IF type = S_stts THEN
                   IF ~InBuf(b, o + 12, 4) \/ (U32(b, o + 12) > 0 /\ ~InBuf(b, o + 16, 8))
                   THEN M4AThrow("RangeError")
                   ELSE M4ASetTop(M4ANextBox(
                            [f EXCEPT !.result.duration = SttsDuration(b, o, @)], o, size))
               ELSE M4ASetTop(M4ANextBox(f, o, size))
           ELSE
               \* parseMetadata, lines 666-700
               IF type = S_covr THEN
                   IF ~InBuf(b, o + 8, 1) THEN M4AThrow("RangeError")
                   ELSE M4ASetTop(M4ANextBox(
                            [f EXCEPT !.result.cover = CoverOf(b, o, size).cover,
                                      !.result.coverType = CoverOf(b, o, size).coverType],
                            o, size))
               ELSE IF type = S_data THEN
                   M4ASetTop(M4ANextBox(ReadDataBox(f, b, o, size), o, size))
               ELSE M4ASetTop(M4ANextBox(f, o, size))

\* tags.duration || 0
DurationOrZero(d) == IF d.num = 0 THEN Zero ELSE d

\* lines 211-216 without line 216: the cover is copied, its MIME type is not
M4AMergeNoCoverType(m, tags) ==
    [m EXCEPT !.title = OrElse(tags.title, @),
              !.artist = OrElse(tags.artist, @),
              !.album = OrElse(tags.album, @),
              !.duration = DurationOrZero(tags.duration),
              !.cover = tags.cover]

\* lines 211-216
M4AMerge(m, tags) ==
    [m EXCEPT !.title = OrElse(tags.title, @),
              !.artist = OrElse(tags.artist, @),
              !.album = OrElse(tags.album, @),
              !.duration = DurationOrZero(tags.duration),
              !.cover = tags.cover,
              !.coverType = tags.coverType]

\* the innermost call returns: to parseM4A, or into the iteration that made it
M4AReturn ==
    /\ Tick
    /\ pc = "m4a"
    /\ Top.done \/ ~M4ACond(Top)
    /\ IF Len(stack) = 1
       THEN Return(M4AMerge(metadata, Top.result)) /\ UNCHANGED <<exc, absorbed>>
       ELSE LET callee == Top
                caller == stack[Len(stack) - 1]
                \* a call on the caller's own parser has moved the caller's offset
                from == IF callee.own THEN caller.offset ELSE callee.offset
                \* Object.assign(result, moovData), or the result object both share
                merged == [caller EXCEPT !.result = callee.result]
            IN  /\ stack' = [SubSeq(stack, 1, Len(stack) - 2) \o
                              <<M4ANextBox(merged, from, caller.size)>>
                                EXCEPT ![Len(stack) - 1].size = 0]
                /\ UNCHANGED <<pc, m4aUnchanged>>

\* catch (e) { console.error(...) } and return metadata
M4ACatch ==
    /\ Tick
    /\ pc = "m4aCaught"
    /\ Return(metadata)
    /\ absorbed' = absorbed \cup {"parseM4A"}
    /\ UNCHANGED exc

-----------------------------------------------------------------------------

-----------------------------------------------------------------------------
(* GlassFlowPlayer (renderer.js) *)

\* the songs the list can hold, and the play() promises that can be pending
MaxSongs == 3
MaxPending == 2
SongPaths == {N_song_mp3, N_b_flac}
\* playSong(index) is called with any integer
IndexArgs == (0 - 2)..(MaxSongs + 1)

\* the audio element before any source is set: no play() has been requested
NoSource == 0 - 1
AudioInit == [src |-> NoSource, paused |-> TRUE, promises |-> <<>>, last |-> "none"]

\* constructor, lines 8-10
PlayerInit ==
    /\ songs = <<>>
    /\ currentSongIndex = 0 - 1
    /\ isPlaying = FALSE
    /\ audioPlayer = AudioInit
    /\ op = "constructor"

\* audioPlayer.play(): a new promise, the most recent request from now on
play(a, by) ==
    [a EXCEPT !.paused = FALSE,
              !.promises = Append([k \in DOMAIN @ |-> [@[k] EXCEPT !.latest = FALSE]],
                                  [by |-> by, latest |-> TRUE]),
              !.last = "pending"]
\* audioPlayer.pause()
pause(a) ==
    [a EXCEPT !.paused = TRUE,
              !.last = IF @ \in {"pending", "fulfilled"} THEN "paused" ELSE @]

\* play() can be called while fewer than MaxPending promises are pending
CanPlay == Len(audioPlayer.promises) < MaxPending

\* line 239 without its upper bound
PlaySongReturnsNoUpperBound(index) == index < 0
\* line 239: if (index < 0 || index >= this.songs.length) return
PlaySongReturns(index) == index < 0 \/ index >= Len(songs)

\* lines 238-265: playSong(index)
playSong(index) ==
    /\ IF PlaySongReturns(index)
       THEN UNCHANGED <<currentSongIndex, audioPlayer>>
       ELSE /\ currentSongIndex' = index
            /\ audioPlayer' = play([audioPlayer EXCEPT !.src = index], "playSong")
    /\ UNCHANGED <<songs, isPlaying>>

\* lines 137-176: addSong pushes the song once parseMetadata has returned
AddSong(path) ==
    /\ Len(songs) < MaxSongs
    /\ songs' = Append(songs, path)
    /\ op' = "addSong"
    /\ UNCHANGED <<parser, currentSongIndex, isPlaying, audioPlayer>>

\* line 230: a click on the list, or any other call of playSong
PlaySong(index) ==
    /\ CanPlay
    /\ playSong(index)
    /\ op' = "playSong"
    /\ UNCHANGED parser

\* lines 270-285
TogglePlay ==
    /\ CanPlay \/ (isPlaying /\ ~(currentSongIndex < 0 /\ Len(songs) > 0))
    /\ IF currentSongIndex < 0 /\ Len(songs) > 0
       THEN playSong(0)
       ELSE /\ IF isPlaying
               THEN /\ audioPlayer' = pause(audioPlayer)
                    /\ isPlaying' = FALSE
               ELSE /\ audioPlayer' = play(audioPlayer, "togglePlay")
                    /\ isPlaying' = TRUE
            /\ UNCHANGED <<songs, currentSongIndex>>
    /\ op' = "togglePlay"
    /\ UNCHANGED parser

\* lines 303-312: the index playPrevious passes to playSong
PreviousIndex ==
    IF currentSongIndex - 1 < 0 THEN Len(songs) - 1 ELSE currentSongIndex - 1
\* lines 317-326: the index playNext passes to playSong
NextIndex ==
    IF currentSongIndex + 1 >= Len(songs) THEN 0 ELSE currentSongIndex + 1

\* lines 303-312
playPrevious ==
    IF Len(songs) = 0 THEN UNCHANGED <<songs, currentSongIndex, isPlaying, audioPlayer>>
    ELSE playSong(PreviousIndex)
\* lines 317-326
playNext ==
    IF Len(songs) = 0 THEN UNCHANGED <<songs, currentSongIndex, isPlaying, audioPlayer>>
    ELSE playSong(NextIndex)

PlayPrevious ==
    /\ CanPlay
    /\ playPrevious
    /\ op' = "playPrevious"
    /\ UNCHANGED parser
PlayNext ==
    /\ CanPlay
    /\ playNext
    /\ op' = "playNext"
    /\ UNCHANGED parser
\* lines 331-333: the ended event of the audio element
OnSongEnded ==
    /\ CanPlay
    /\ playNext
    /\ op' = "onSongEnded"
    /\ UNCHANGED parser

\* lines 257-264: the audio element settles the k-th pending play() promise;
\* playSong attached then and catch to its promise, togglePlay attached nothing
PlaySettled(k, fulfilled) ==
    /\ k \in DOMAIN audioPlayer.promises
    /\ LET p == audioPlayer.promises[k]
           others == SubSeq(audioPlayer.promises, 1, k - 1)
                        \o SubSeq(audioPlayer.promises, k + 1, Len(audioPlayer.promises))
       IN  /\ audioPlayer' =
                 [audioPlayer EXCEPT
                     !.promises = others,
                     !.last = IF p.latest /\ @ = "pending"
                              THEN (IF fulfilled THEN "fulfilled" ELSE "rejected")
                              ELSE @]
           /\ isPlaying' = IF p.by = "playSong" /\ fulfilled THEN TRUE ELSE isPlaying
    /\ op' = IF fulfilled THEN "playFulfilled" ELSE "playRejected"
    /\ UNCHANGED <<parser, songs, currentSongIndex>>

NextPlayer ==
    \/ \E path \in SongPaths : AddSong(path)
    \/ \E index \in IndexArgs : PlaySong(index)
    \/ TogglePlay
    \/ PlayPrevious
    \/ PlayNext
    \/ OnSongEnded
    \/ \E k \in 1..MaxPending, fulfilled \in BOOLEAN : PlaySettled(k, fulfilled)

Init ==
    /\ pc = "idle"
    /\ audioData = EmptyBuf
    /\ callerData = EmptyBuf
    /\ filePath = <<>>
    /\ defaultMetadata = NoRecord
    /\ metadata = NoRecord
    /\ ret = NoRecord
    /\ outcome = "none"
    /\ exc = ""
    /\ absorbed = {}
    /\ offset = 0 /\ endOffset = 0 /\ version = 0 /\ pos = 0 /\ i = 0
    /\ commentCount = 0 /\ result = <<>> /\ findOffset = 0 /\ byteRate = 0
    /\ stack = <<>>
    /\ probe = NoProbe
    /\ probeRet = NoRecord
    /\ history = NoHistory
    /\ steps = 0
    /\ PlayerInit

\* one step of the call in progress
Step ==
    \/ Catch
    \/ ParseMP3
    \/ MP3Frame
    \/ MP3Exit
    \/ ParseFLAC
    \/ FLACBlock
    \/ VorbisComment
    \/ VorbisReturn
    \/ FLACExit
    \/ ParseWAV
    \/ WAVChunk
    \/ WAVFindStep
    \/ WAVFindReturn
    \/ WAVInfoStep
    \/ WAVInfoReturn
    \/ WAVExit
    \/ ParseM4A
    \/ M4AStep
    \/ M4AReturn
    \/ M4ACatch

Next ==
    \/ \E inp \in CallerInputs : Call(inp)
    \/ Await
    \/ Step

Spec == Init /\ [][Next]_vars

\* the same program, with the first result on one input remembered
InitProbe ==
    /\ Init!1 /\ Init!2 /\ Init!3 /\ Init!4 /\ Init!5 /\ Init!6 /\ Init!7 /\ Init!8
    /\ Init!9 /\ Init!10 /\ Init!11 /\ Init!12 /\ Init!13
    /\ \E inp \in ProbeInputs :
           probe = [set |-> TRUE, audioData |-> inp.audioData, filePath |-> inp.filePath]
    /\ probeRet = NoRecord
    /\ history = NoHistory
    /\ steps = 0
    /\ PlayerInit
SpecProbe == InitProbe /\ [][Next]_vars

\* readSyncsafeInt on its own: four bytes are drawn, then the function is applied
\* at offset SyncsafeAt of a buffer that holds them after SyncsafeAt other bytes
SyncsafeAt == 6
SyncsafeByte == {0, 1, 2, 64, 127, 128, 129, 255}
SyncsafeBuffers ==
    {Buf([k \in 1..SyncsafeAt |-> 0] \o <<b0, b1, b2, b3>>, 0) :
        b0 \in {0, 1, 127, 128, 255}, b1 \in {0, 127, 128}, b2 \in {0, 2, 129},
        b3 \in SyncsafeByte}
InitSyncsafe ==
    /\ Init!1
    /\ audioData \in SyncsafeBuffers
    /\ Init!3 /\ Init!4 /\ Init!5 /\ Init!6 /\ Init!7 /\ Init!8 /\ Init!9 /\ Init!10
    /\ Init!11 /\ Init!12 /\ Init!13 /\ Init!14 /\ Init!15 /\ Init!16 /\ Init!17
    /\ PlayerInit
ApplySyncsafe ==
    /\ pc = "idle"
    /\ pc' = "done"
    /\ ret' = readSyncsafeInt(audioData, SyncsafeAt)
    /\ UNCHANGED <<audioData, callerData, filePath, defaultMetadata, metadata, outcome,
                   exc, absorbed, offset, endOffset, version, pos, i, commentCount,
                   result, findOffset, byteRate, stack, probe, player, probeRet, history, steps>>
SpecSyncsafe == InitSyncsafe /\ [][ApplySyncsafe]_vars

\* the player on its own: no parseMetadata call is in progress
SpecPlayer == Init /\ [][NextPlayer]_vars

-----------------------------------------------------------------------------
(* Properties                                                              *)

Supported == {S_mp3, S_flac, S_m4a, S_wav}
Running == pc \notin {"idle", "done"}

\* C1: parseMetadata is total. Every call that settles does so by returning a
\* record and never by throwing or rejecting: an exception raised while
\* parsing never reaches the caller, and the call that raised it still ends
\* with a returned record.
C1_Total ==
    /\ outcome # "rejected"
    /\ pc = "done" =>
          /\ outcome = "returned"
          /\ ret # NoRecord
          /\ (exc # "" => absorbed # {})

\* a call on a supported format whose RangeError reached the catch block of
\* parseMetadata and that returned all the same
C1_Witness ==
    /\ pc = "done"
    /\ outcome = "returned"
    /\ exc = "RangeError"
    /\ "parseMetadata" \in absorbed
    /\ Ext(filePath) \in Supported

\* what one step of a loop does to the position the loop reads from
Advances ==
    /\ (pc = "mp3" /\ pc' = "mp3") => offset' > offset
    /\ (pc \in {"flac", "vorbis", "vorbisCaught"} /\ pc' = "flac") => offset' > offset
    /\ (pc = "vorbis" /\ pc' = "vorbis") => pos' > pos /\ i' > i
    /\ (pc \in {"wav", "wavFind", "wavInfo"} /\ pc' = "wav") => offset' > offset
    /\ (pc = "wavFind" /\ pc' = "wavFind") => findOffset' > findOffset
    /\ (pc = "wavInfo" /\ pc' = "wavInfo") => pos' > pos
    /\ (pc = "m4a" /\ pc' = "m4a") =>
          IF Len(stack') > Len(stack)
          THEN \* a nested call starts past the header of the box that made it
               stack'[Len(stack')].offset > Top.offset
          ELSE LET before == stack[Len(stack')]
                   after == stack'[Len(stack')]
               IN  after.done \/ after.offset > before.offset

\* C2: parseMetadata terminates on every finite buffer, zero-size boxes and
\* chunks included: every iteration of a parsing loop that stays in the loop
\* moves its read position strictly forward (or marks the loop as left by its
\* break), and no call is still running after MaxSteps - 1 steps.
C2_Terminates ==
    /\ [][Advances]_vars
    /\ [](Running => steps < MaxSteps)

\* an M4A loop standing on a box whose size field is zero, left by the break
C2_Witness ==
    /\ pc = "m4a"
    /\ Top.done
    /\ InBuf(audioData, Top.offset, 8)
    /\ U32(audioData, Top.offset) = 0

\* the functions whose catch block discards the parser's working record
Discarding == {"parseMetadata", "parseM4A"}

NonEmptyString(s) == s # Null /\ s # <<>>

\* C4: every record parseMetadata returns is fully populated: title, artist
\* and album are non-empty strings, duration is a number (a fraction with a
\* positive denominator), format is the upper-cased extension and filePath
\* the path of the call; an empty or missing tag value never replaces a
\* default.
C4_FullyPopulated ==
    (pc = "done" /\ outcome = "returned") =>
        /\ NonEmptyString(ret.title)
        /\ NonEmptyString(ret.artist)
        /\ NonEmptyString(ret.album)
        /\ ret.duration.den > 0
        /\ ret.format # Null
        /\ ret.format = toUpperCase(RemoveFirstDot(Ext(filePath)))
        /\ ret.filePath = filePath

\* ".mp3" with blank TIT2 and TALB frames: the stem is empty and so is the
\* title tag, and the title is the sentinel
C4_Witness ==
    /\ pc = "done"
    /\ filePath = N_dot_mp3
    /\ callerData = Buf(ID3Tag(3, 0, Len(BlankFrames), BlankFrames), AudioPad)
    /\ ret.title = UnknownTitle
    /\ ret.album = UnknownAlbum

\* the minimal ID3v2.3 tag of the round trip: TIT2 "Test", TPE1 "Artist",
\* TALB "Album", each an encoding byte and the text, and an APIC frame with
\* MIME image/jpeg and a 10-byte stub
RoundTripTag == ID3Tag(3, 0, Len(RoundTripFrames), RoundTripFrames)

\* C5: for a .mp3 buffer holding the round-trip tag, parseMetadata returns
\* "Test", "Artist" and "Album" as title, artist and album, a cover equal to
\* the stub bytes (as bytes, or as their base64 text) and cover MIME
\* image/jpeg.
C5_RoundTrip ==
    (/\ pc = "done"
     /\ Ext(filePath) = S_mp3
     /\ callerData \in {Buf(RoundTripTag, 0), Buf(RoundTripTag, AudioPad)}) =>
        /\ ret.title = S_Test
        /\ ret.artist = S_Artist
        /\ ret.album = S_Album
        /\ ret.cover \in {JpegStub, arrayBufferToBase64(JpegStub)}
        /\ ret.coverType = S_imagejpeg

\* a complete FLAC file of the model whose first metadata block is STREAMINFO
StreamInfoFirst(b) ==
    /\ b.bytes \in FLACBytes /\ b.pad = 0
    /\ Str4(b, 0) = S_fLaC
    /\ FlacBlockType(b, 4) = 0
\* the fields of a STREAMINFO block body at off, as the FLAC format lays them
\* out: 20 bits of sample rate from byte 10, 36 bits of total samples ending
\* at byte 17
FormatSampleRate(b, off) ==
    At(b, off + 10) * 4096 + At(b, off + 11) * 16 + (At(b, off + 12) \div 16)
FormatTotalSamplesHigh(b, off) == At(b, off + 13) % 16
FormatTotalSamplesLow(b, off) == U32(b, off + 14)

\* C6: for a .flac buffer whose STREAMINFO block encodes sampleRate and
\* totalSamples (here below 2^32), the returned duration equals
\* totalSamples / sampleRate, and 0 when sampleRate is 0; sampleRate 44100 and
\* totalSamples 441000 give exactly 10.
C6_FlacDuration ==
    (/\ pc = "done"
     /\ Ext(filePath) = S_flac
     /\ StreamInfoFirst(callerData)
     /\ FormatTotalSamplesHigh(callerData, 8) = 0) =>
        IF FormatSampleRate(callerData, 8) = 0 THEN ret.duration.num = 0
        ELSE FracEq(ret.duration, Frac(FormatTotalSamplesLow(callerData, 8),
                                       FormatSampleRate(callerData, 8)))

\* a 32-bit field as the WAV format stores it: least significant byte first
FormatU32LE(b, off) ==
    At(b, off) + At(b, off + 1) * 256 + At(b, off + 2) * 65536
        + At(b, off + 3) * 16777216
\* a minimal RIFF/WAVE file in the format's byte order: a fmt chunk of 16
\* bytes at 12, then the data chunk at 36 with all of its bytes present
MinimalWav(b) ==
    /\ Str4(b, 0) = S_RIFF /\ Str4(b, 8) = S_WAVE
    /\ Str4(b, 12) = S_fmt /\ FormatU32LE(b, 16) = 16
    /\ Str4(b, 36) = S_data
    /\ byteLength(b) = 44 + FormatU32LE(b, 40)
    /\ FormatU32LE(b, 28) > 0

\* C7: for a minimal RIFF/WAVE .wav buffer, a fmt chunk followed by a data
\* chunk with sizes and fmt fields little-endian, the returned duration
\* equals data chunk size / byteRate; byteRate 176400 and 1,764,000 bytes of
\* data give 10.
C7_WavDuration ==
    (/\ pc = "done"
     /\ Ext(filePath) = S_wav
     /\ MinimalWav(callerData)) =>
        FracEq(ret.duration,
               Frac(FormatU32LE(callerData, 40), FormatU32LE(callerData, 28)))

\* the file name stem: what follows the last / or \ of the path, without its
\* final extension (a dot and the one or more non-dot characters after it)
FileNameStem(path) ==
    LET sep == LastIndexIn(path, {47, 92})
        fileName == SubSeq(path, sep + 1, Len(path))
        dot == LastIndexIn(fileName, {46})
    IN  IF dot > 0 /\ dot < Len(fileName) THEN SubSeq(fileName, 1, dot - 1)
        ELSE fileName

\* every field but the title is at its default
OtherFieldsDefault(r) ==
    /\ r.artist = UnknownArtist
    /\ r.album = UnknownAlbum
    /\ r.duration = Zero
    /\ r.cover = Null
    /\ r.coverType = Null

\* C8, as stated: for a file name whose extension is none of .mp3, .flac,
\* .m4a, .wav the record returned has the file name stem as its title and
\* every other field at its default, and no format parser runs.
C8_TitleIsStem ==
    (Ext(filePath) \notin Supported) =>
        /\ pc \in {"idle", "done"}
        /\ steps = 0
        /\ pc = "done" =>
              /\ ret.title = FileNameStem(filePath)
              /\ OtherFieldsDefault(ret)

\* C8, amended: for such a file name the title is the file name stem, or the
\* unknown-title sentinel when the stem is empty; every other field is at its
\* default, whatever the buffer holds, and no format parser runs.
C8_TitleIsStemOrSentinel ==
    (Ext(filePath) \notin Supported) =>
        /\ pc \in {"idle", "done"}
        /\ steps = 0
        /\ pc = "done" =>
              /\ ret.title = (IF FileNameStem(filePath) = <<>> THEN UnknownTitle
                              ELSE FileNameStem(filePath))
              /\ OtherFieldsDefault(ret)
              /\ audioData = callerData

\* ".ogg" on a buffer that holds a complete ID3v2 tag: the title is the sentinel
C8_Witness ==
    /\ pc = "done"
    /\ filePath = N_dot_ogg
    /\ callerData = Buf(RoundTripTag, 0)
    /\ ret.title = UnknownTitle
    /\ ret.format = <<79, 71, 71>>

\* C9: for every .mp3 buffer shorter than 10 bytes, the empty buffer and
\* buffers starting with "ID3" included, parseMetadata returns the default
\* record, and no out-of-bounds error reaches the caller.
C9_ShortMp3GivesDefault ==
    (pc = "done" /\ Ext(filePath) = S_mp3 /\ byteLength(callerData) < 10) =>
        /\ outcome = "returned"
        /\ ret = DefaultMetadata(filePath)

\* nine bytes that start with "ID3": the header read throws, and the default
\* record is returned
C9_Witness ==
    /\ pc = "done"
    /\ Ext(filePath) = S_mp3
    /\ byteLength(callerData) = 9
    /\ SubSeq(callerData.bytes, 1, 3) = S_ID3
    /\ exc = "RangeError"
    /\ ret = DefaultMetadata(filePath)

\* C10: parseMetadata is deterministic and stateless: a call on the probe
\* input returns the record the first call on it returned, whatever calls
\* were made before or between them, and the buffer a call was given is the
\* buffer the caller still holds.
C10_Deterministic ==
    /\ (pc = "done" /\ IsProbe) =>
          /\ outcome = "returned"
          /\ ret = probeRet
    /\ audioData = callerData

\* a second call on the probe input, a tagged file of a supported format,
\* after a call on another input
C10_Witness ==
    /\ pc = "done"
    /\ IsProbe
    /\ history.calls = MaxProbeCalls
    /\ history.between
    /\ Ext(filePath) \in Supported
    /\ ret.title # defaultMetadata.title
    /\ ret = probeRet


\* C11: the duration of every returned record is at least 0, whatever the
\* format and the buffer.
C11_DurationNonNegative ==
    (pc = "done" /\ outcome = "returned") => ret.duration.num >= 0

\* C12: in every returned record the cover MIME type is present exactly when
\* the cover is present: both are null or both are set.
C12_CoverTypeIffCover ==
    pc = "done" => ((ret.cover = Null) <=> (ret.coverType = Null))

\* a record with a PNG cover has been returned for an M4A file
C12_Witness ==
    /\ pc = "done"
    /\ outcome = "returned"
    /\ ret.cover # Null
    /\ ret.coverType = S_imagepng
    /\ Ext(filePath) = S_m4a

\* C13: readSyncsafeInt returns (b0 mod 128) * 2^21 + (b1 mod 128) * 2^14 +
\* (b2 mod 128) * 2^7 + (b3 mod 128) for the four bytes it reads: the most
\* significant bit of a byte never changes the result.
C13_SyncsafeIgnoresMsb ==
    pc = "done" =>
        LET b(k) == At(audioData, SyncsafeAt + k)
        IN  ret = Ok((b(0) % 128) * 2097152 + (b(1) % 128) * 16384
                     + (b(2) % 128) * 128 + (b(3) % 128))

\* C14: in the ID3v2 frame loop a frame whose size is 0, or whose header plus
\* body would reach past the tag boundary (10 + tag size), ends the loop
\* without being interpreted and without an error, so no byte at or beyond the
\* tag boundary is used as frame content: every frame the loop interprets ends
\* at or before the tag boundary.
C14_FramesWithinTag ==
    [][(pc = "mp3" /\ pc' = "mp3") => offset' <= endOffset]_vars

\* the comments of FlacTagged, in file order
TaggedComments == <<C_TITLE_Song, C_Artist_Me, C_ALBUM_LP, C_TITLE_Two>>
\* the text before and after the first '=' of a comment
KeyOf(c) == SubSeq(c, 1, (CHOOSE k \in 1..Len(c) : c[k] = 61 /\ \A h \in 1..(k - 1) : c[h] # 61) - 1)
ValueOf(c) == SubSeq(c, Len(KeyOf(c)) + 2, Len(c))
\* the value of the first comment whose key is `key` in any letter case
FirstValue(comments, key) ==
    LET hits == {k \in 1..Len(comments) : toUpperCase(KeyOf(comments[k])) = key}
    IN  ValueOf(comments[CHOOSE k \in hits : \A h \in hits : k <= h])

\* C15: Vorbis comment keys are matched against TITLE, ARTIST and ALBUM in any
\* letter case, and when a key occurs in several entries the value of the
\* first entry is the one returned.
C15_FirstEntryWins ==
    (pc = "done" /\ Ext(filePath) = S_flac /\ callerData = Buf(FlacTagged, 0)) =>
        /\ ret.title = FirstValue(TaggedComments, S_TITLE)
        /\ ret.artist = FirstValue(TaggedComments, S_ARTIST)
        /\ ret.album = FirstValue(TaggedComments, S_ALBUM)

\* C16: the FLAC block walk ends normally after the first block whose
\* last-block flag is set and, when no block carries the flag, as soon as the
\* buffer is exhausted, and then the fields of the blocks already walked are
\* returned: a file of FlacNoLast that ends less than a block header after its
\* comment block gives the title and the album of that block, with no exception.
C16_WalkEndsAtExhaustion ==
    (/\ pc = "done"
     /\ Ext(filePath) = S_flac
     /\ callerData \in Prefixes(FlacNoLast)
     /\ byteLength(callerData) - Len(FlacNoLastHead) \in 0..3) =>
        /\ exc = ""
        /\ ret.title = ValueOf(C_title_Low)
        /\ ret.album = <<97>>

\* the reference walk of the box tree over the window [off, hi): a container
\* hands its payload window [off + 8, off + size) to the child walk and the walk
\* resumes at the container's next sibling; stts gives the duration and covr
\* the cover, as lines 649-654 and 675-687 compute them
RefContainers == {S_moov, S_trak, S_mdia, S_minf, S_ilst}
RECURSIVE RefWalk(_, _, _, _)
RefWalk(b, off, hi, res) ==
    IF off + 8 > hi THEN res
    ELSE LET size == U32(b, off)
             type == Str4(b, off + 4)
             here == CASE type \in RefContainers -> RefWalk(b, off + 8, off + size, res)
                       [] type = S_stts ->
                              [res EXCEPT !.duration = SttsDuration(b, off, @)]
                       [] type = S_covr ->
                              [res EXCEPT !.cover = CoverOf(b, off, size).cover,
                                          !.coverType = CoverOf(b, off, size).coverType]
                       [] OTHER -> res
         IN  IF size < 8 THEN here ELSE RefWalk(b, off + size, hi, here)

\* C17: M4AParser.parse is a recursive descent over the box tree: its result
\* equals that of the reference walk, in which each container hands only its
\* payload window to the child walk, every box of a window is visited once in
\* order, and the walk resumes at the container's next sibling. Stated on the
\* well-formed file M4ATree, through the fields parseM4A copies.
C17_ParseEqualsReferenceWalk ==
    (pc = "done" /\ Ext(filePath) = S_m4a /\ callerData = Buf(M4ATree, 0)) =>
        LET ref == RefWalk(callerData, 0, byteLength(callerData), M4AResult0)
        IN  /\ FracEq(ret.duration, ref.duration)
            /\ ret.cover = ref.cover
            /\ ret.coverType = ref.coverType

\* the first 74 bytes of WavOdd: the header, the JUNK chunk and the whole
\* LIST/INFO chunk that names the artist
WavOddInfoEnd == 12 + 12 + Len(InfoList(InfoEntry(S_IART, S_Artist) \o ChunkBE(S_INAM, 0, <<>>)
                                        \o InfoEntry(S_IPRD, S_Album)))

\* C18: in the WAV chunk scan a chunk cut off by the end of the buffer only ends
\* the scan, and what the chunks before it gave is returned: every file of
\* WavOdd that holds its whole LIST/INFO chunk, however the chunks after it are
\* cut, gives the artist of that chunk, with no exception.
C18_ShortChunkEndsScan ==
    (/\ pc = "done"
     /\ Ext(filePath) = S_wav
     /\ callerData \in Prefixes(WavOdd)
     /\ byteLength(callerData) >= WavOddInfoEnd) =>
        /\ exc = ""
        /\ ret.artist = S_Artist

\* C19: for every .m4a buffer the title, artist and album of the returned
\* record equal the defaults (the file name stem and the two sentinels): the
\* text of data boxes under ilst is read but never assigned, so the record
\* differs from the default record in duration, cover and cover MIME at most.
C19_M4ATextIsDefault ==
    (pc = "done" /\ Ext(filePath) = S_m4a) =>
        /\ ret.title = getDefaultTitle(filePath)
        /\ ret.artist = UnknownArtist
        /\ ret.album = UnknownAlbum
        /\ [ret EXCEPT !.duration = Zero, !.cover = Null, !.coverType = Null]
               = DefaultMetadata(filePath)

\* a file whose data box holds a title-like text and whose cover is extracted
\* has been given the default title
C19_Witness ==
    /\ pc = "done"
    /\ outcome = "returned"
    /\ Ext(filePath) = S_m4a
    /\ callerData = Buf(M4AData, 0)
    /\ ret.cover # Null
    /\ ret.title = getDefaultTitle(filePath)

\* the first three bytes are "ID3"
StartsWithID3(b) == byteLength(b) >= 3 /\ <<At(b, 0), At(b, 1), At(b, 2)>> = S_ID3
\* the syncsafe number in the four bytes at off: seven bits of each byte
SyncsafeValue(b, off) ==
    (At(b, off) % 128) * 2097152 + (At(b, off + 1) % 128) * 16384
        + (At(b, off + 2) % 128) * 128 + (At(b, off + 3) % 128)

\* C20: for an .mp3 buffer that does not start with "ID3" the default record,
\* with duration 0, is returned and no error is raised; for a buffer with an
\* ID3v2 tag the duration is (file length - tag end) / 16000, where tag end is
\* 10 plus the syncsafe tag size. The second part is stated for the calls
\* whose parse met no failure.
C20_Mp3Duration ==
    (pc = "done" /\ Ext(filePath) = S_mp3) =>
        /\ ~StartsWithID3(callerData) =>
              (outcome = "returned" /\ ret = DefaultMetadata(filePath))
        /\ (StartsWithID3(callerData) /\ byteLength(callerData) >= 10 /\ exc = "") =>
              FracEq(ret.duration,
                     Frac(byteLength(callerData) - (10 + SyncsafeValue(callerData, 6)),
                          16000))

\* currentSongIndex is -1 or an index of songs
IndexValid ==
    \/ currentSongIndex = 0 - 1
    \/ currentSongIndex \in 0..(Len(songs) - 1)
\* what a step of playNext, playPrevious or any handler does to the index
IndexStep ==
    /\ (/\ op' \in {"playNext", "onSongEnded"}
        /\ Len(songs) > 0
        /\ currentSongIndex = Len(songs) - 1) => currentSongIndex' = 0
    /\ (/\ op' = "playPrevious"
        /\ Len(songs) > 0
        /\ currentSongIndex \in {0, 0 - 1}) => currentSongIndex' = Len(songs) - 1
    /\ (Len(songs) = 0 /\ Len(songs') = 0) => currentSongIndex' = currentSongIndex

\* C21: after any sequence of song additions, playSong(i) for any integer i,
\* playNext, playPrevious, togglePlay and song-ended events, currentSongIndex
\* is -1 or a valid index of songs; playNext from the last song goes to index
\* 0, playPrevious from index 0 or -1 goes to the last song, and with an empty
\* list none of these operations changes currentSongIndex.
C21_IndexInvariant == [](IndexValid) /\ [][IndexStep]_vars

\* playPrevious has wrapped to the last of three songs while an earlier
\* play() promise of playSong was still pending
C21_Witness ==
    /\ op = "playPrevious"
    /\ Len(songs) = MaxSongs
    /\ currentSongIndex = Len(songs) - 1
    /\ audioPlayer.src = currentSongIndex
    /\ Len(audioPlayer.promises) = 2
    /\ audioPlayer.promises[1].by = "playSong"

\* C22: isPlaying agrees with the audio element under every interleaving of
\* user actions and play() promise settlements: whenever isPlaying is true a
\* song is selected and the most recent play() request issued by playSong or
\* togglePlay has not been rejected nor followed by a pause; a rejected play()
\* in playSong, or togglePlay on an empty list, never leaves isPlaying true.
C22_IsPlayingAgrees ==
    isPlaying =>
        /\ currentSongIndex >= 0
        /\ audioPlayer.last \in {"pending", "fulfilled"}

=============================================================================
